---- MODULE Spec2Model ----
(***************************************************************************)
(* Real-time quiz server: the in-process session store (QuizService), the  *)
(* broadcast hub (client registry and bounded outbound queues), the Redis  *)
(* backed store and the pub/sub relay, for up to two server instances that *)
(* share one Redis.                                                        *)
(*                                                                         *)
(* Abstractions: display names, titles, question texts and the wall-clock  *)
(* stamps CreatedAt/JoinedAt/AnsweredAt are left out (no modelled code      *)
(* branches on them); StartedAt/EndedAt are drawn from a logical clock.    *)
(* uuid-generated ids are fresh: the n-th quiz id issued is QuizIdOf(n).    *)
(* The Redis key leaderboard:<id>, written by a goroutine GetLeaderboard    *)
(* starts and deleted by DeleteQuiz, is left out: no code reads it.         *)
(***************************************************************************)
EXTENDS Integers, Sequences, FiniteSets, TLC

(***************************************************************************)
(* Bounds of the model.                                                    *)
(***************************************************************************)
MaxQuizzes == 1     \* quizzes CreateQuiz may create in one run
MaxUsers == 2       \* users JoinQuiz may create in one run
MaxClients == 2     \* websocket connections accepted in one run
SendCap == 2        \* capacity of Client.Send (256 in HandleWebSocket)
MaxQuestion == 2    \* submissions address the first MaxQuestion sample questions
MaxChoice == 1      \* submitted option indexes range over 0..MaxChoice
MaxClock == 2       \* readings of time.Now() by StartQuiz/EndQuiz in one run
HubQuizzes == 2     \* quizzes created in the hub scenario
HubUsers == 2       \* users created in the hub scenario
LbUsers == 3        \* participants of the quiz in the leaderboard scenario
LbQuestions == 2    \* questions answered in the leaderboard scenario
MaxInbox == 1       \* messages waiting in one instance's subscription
MaxPublished == 3   \* the count of PUBLISH commands saturates here
RelayClients == 1   \* websocket connections accepted in the relay scenario
RelayQuestions == 1 \* questions answered in the relay scenario
CloseClock == 2     \* EndQuiz calls in the unregistration scenario
LocalQuizzes == 1    \* quiz ids issued in the single-instance scenario
LocalUsers == 2      \* user ids issued in the single-instance scenario
SubmitQuestions == 1   \* sample questions addressed in the submission scenario
SubmitUsers == 2       \* user ids issued in the submission scenario
SubmitChoiceBelow == 1 \* submitted option indexes start this far below 0
SubmitChoiceAbove == 4 \* submitted option indexes end here (the options are 0..3)
AccessUsers == 1       \* participants of the quiz in the synchronisation scenario
EchoClients == 1    \* websocket connections in the echo scenario
EchoUsers == 1      \* joins in the echo scenario
BindingClients == 1  \* websocket connections in the binding scenario
BindingUsers == 2    \* joins in the binding scenario
ListQuizzes == 2     \* quiz ids issued in the listing scenario
ListUsers == 1       \* user ids issued in the listing scenario
SharedUsers == 2     \* user ids issued in the shared-store scenario
LateUsers == 2       \* user ids issued in the late-write scenario
DisconnectTasks == 1 \* goroutines serving EndQuiz at once in the disconnection scenario
DeleteQuizzes == 2   \* quiz ids issued in the deletion scenario
DeleteUsers == 1     \* user ids issued in the deletion scenario
DegradedQuizzes == 1 \* quiz ids issued in the degraded scenario
DegradedUsers == 2   \* user ids issued in the degraded scenario
MaxTasks == 2       \* goroutines serving SubmitAnswer at once in the race scenario
MaxRecorded == 2    \* no submission starts once the user holds this many answers

Instances == {"A", "B"}

QuizStatusWaiting == "waiting"
QuizStatusActive == "active"
QuizStatusEnded == "ended"

QuizKeyPrefix == "quiz:"

\* The sample question bank (ID, index of the correct option, points).
getSampleQuestions ==
  << [ID |-> "q1", Correct |-> 0, Points |-> 10],
     [ID |-> "q2", Correct |-> 2, Points |-> 15],
     [ID |-> "q3", Correct |-> 1, Points |-> 20],
     [ID |-> "q4", Correct |-> 1, Points |-> 15],
     [ID |-> "q5", Correct |-> 2, Points |-> 10] >>

\* Question ids and option indexes the modelled requests carry.
QuestionInputs == {getSampleQuestions[k].ID : k \in 1..MaxQuestion}
ChoiceInputs == 0..MaxChoice \cup {getSampleQuestions[k].Correct : k \in 1..MaxQuestion}
RelayQuestionInputs == {getSampleQuestions[k].ID : k \in 1..RelayQuestions}

ClientIds == 1..MaxClients

Nil == 0   \* a nil *time.Time

(***************************************************************************)
(* models.User                                                             *)
(***************************************************************************)
NewUser(userID) == [ID |-> userID, Score |-> 0, Answers |-> << >>]

\* User.HasAnswered: some recorded answer carries the question id.
HasAnswered(user, questionID) ==
  \E k \in 1..Len(user.Answers) : user.Answers[k].QuestionID = questionID

AddAnswerNoScore(user, answer) ==
  [user EXCEPT !.Answers = Append(@, answer)]

\* User.AddAnswer: append, and add the points when the answer is correct.
AddAnswer(user, answer) ==
  [user EXCEPT !.Answers = Append(@, answer),
               !.Score = IF answer.Correct THEN @ + answer.Points ELSE @]

FindQuestionFirst(questionID) == << getSampleQuestions[1] >>

\* The lookup loop of SubmitAnswer: the first question with the id, or none.
FindQuestion(questionID) ==
  LET hits == {k \in 1..Len(getSampleQuestions) : getSampleQuestions[k].ID = questionID}
  IN IF hits = {} THEN << >>
     ELSE << getSampleQuestions[CHOOSE k \in hits : \A m \in hits : k <= m] >>

AnswerRecordFullPoints(question, questionID, answer) ==
  [QuestionID |-> questionID, Answer |-> answer, Correct |-> answer = question.Correct,
   Points |-> question.Points]

\* The answer record SubmitAnswer builds for a found question.
AnswerRecord(question, questionID, answer) ==
  LET isCorrect == answer = question.Correct
  IN [QuestionID |-> questionID, Answer |-> answer, Correct |-> isCorrect,
      Points |-> IF isCorrect THEN question.Points ELSE 0]

(***************************************************************************)
(* models.Quiz                                                             *)
(***************************************************************************)
NewQuiz(quizID) ==
  [ID |-> quizID, Status |-> QuizStatusWaiting, StartedAt |-> Nil, EndedAt |-> Nil,
   Participants |-> << >>]

AddParticipantAlone(quiz, user) ==
  [quiz EXCEPT !.Participants = [u \in {user.ID} |-> user]]

\* Quiz.AddParticipant: Participants[user.ID] = user.
AddParticipant(quiz, user) ==
  [quiz EXCEPT !.Participants =
     [u \in DOMAIN @ \cup {user.ID} |-> IF u = user.ID THEN user ELSE @[u]]]

PutUser(quiz, user) ==
  [quiz EXCEPT !.Participants[user.ID] = user]

\* The orders in which a range loop may visit the keys of a Go map.
MapOrders(S) ==
  {f \in [1..Cardinality(S) -> S] : \A a, b \in 1..Cardinality(S) : a # b => f[a] # f[b]}

Swap(e, i, j) == [e EXCEPT ![i] = e[j], ![j] = e[i]]

RECURSIVE SortInner(_, _, _)
SortInnerNoSwap(e, i, j) == e

\* The inner loop of the leaderboard sort: for j := i+1; j < len; j++.
SortInner(e, i, j) ==
  IF j > Len(e) THEN e
  ELSE SortInner(IF e[i].Score < e[j].Score THEN Swap(e, i, j) ELSE e, i, j + 1)

RECURSIVE SortOuter(_, _)
\* The outer loop of the leaderboard sort: for i := 0; i < len-1; i++.
SortOuter(e, i) ==
  IF i > Len(e) - 1 THEN e ELSE SortOuter(SortInner(e, i, i + 1), i + 1)

\* Quiz.GetLeaderboard, with the map visited in `order`.
GetLeaderboard(quiz, order) ==
  LET entries == [k \in 1..Len(order) |->
                    [UserID |-> quiz.Participants[order[k]].ID,
                     Score |-> quiz.Participants[order[k]].Score]]
      sorted == SortOuter(entries, 1)
  IN [k \in 1..Len(sorted) |->
        [UserID |-> sorted[k].UserID, Score |-> sorted[k].Score, Position |-> k]]

(***************************************************************************)
(* State                                                                   *)
(***************************************************************************)
VARIABLES
  Quizzes,      \* QuizService.Quizzes of each instance: quiz id -> Quiz
  Clients,      \* QuizService.Clients of each instance: the registered clients
  client,       \* the Client objects: Hub, QuizID, UserID, Send, closes, reading
  rclient,      \* RedisService.client # nil, for each instance
  redisDown,    \* the Redis server fails every command sent to it
  redisQuiz,    \* Redis keys quiz:<id>
  redisUser,    \* Redis keys user:<id>
  redisActive,  \* Redis set active_quizzes
  inbox,        \* messages delivered to each instance's subscription, not yet received
  nPublished,   \* PUBLISH commands issued so far (saturating)
  uuidQuiz,     \* quiz ids issued so far
  uuidUser,     \* user ids issued so far
  clock,        \* the logical clock behind time.Now()
  crashed,      \* instances stopped by a Go runtime panic
  ret,          \* what the last call returned
  task,         \* the goroutines of the step-wise specifications
  history       \* the score tables a quiz held after each AddAnswer (step-wise specs)

vars == << Quizzes, Clients, client, rclient, redisDown, redisQuiz, redisUser, redisActive,
           inbox, nPublished, uuidQuiz, uuidUser, clock, crashed, ret, task, history >>

QuizIdOf(n) == "z" \o ToString(n)
UserIdOf(n) == "u" \o ToString(n)
QuizIdInputs == {QuizIdOf(n) : n \in 1..MaxQuizzes}
UserIdInputs == {UserIdOf(n) : n \in 1..MaxUsers}

\* m[k] = v on a Go map.
Put(m, k, v) == [x \in DOMAIN m \cup {k} |-> IF x = k THEN v ELSE m[x]]

DeleteKeepKey(m, k) == m

\* delete(m, k) on a Go map; DEL on the keys of one prefix.
Delete(m, k) ==
  IF DOMAIN m \ {k} = {} THEN << >> ELSE [x \in DOMAIN m \ {k} |-> m[x]]

NoClient ==
  [Hub |-> "", QuizID |-> "", UserID |-> "", Send |-> << >>, closes |-> 0, reading |-> FALSE]

(***************************************************************************)
(* RedisService                                                            *)
(***************************************************************************)
\* The channel broadcastToQuiz publishes on: "quiz:" + quizID.
Channel(quizID) == [prefix |-> QuizKeyPrefix, id |-> quizID]

\* The channel startRedisSubscription subscribes to: SubscribeToChannel("quiz:*").
SubscribedChannel == [prefix |-> QuizKeyPrefix, id |-> "*"]

DeliversByPattern(subscription, channel) ==
  subscription.prefix = channel.prefix /\ (subscription.id = "*" \/ subscription.id = channel.id)

\* client.Subscribe issues SUBSCRIBE, which names channels literally (glob
\* patterns are matched by PSUBSCRIBE only, which the code never issues).
Delivers(subscription, channel) == subscription = channel

\* The instance has a Redis client and the server executes its commands.
RedisWorks(i) == rclient[i] /\ ~redisDown

\* RedisService.SaveQuiz: SET quiz:<id> and SADD active_quizzes; a no-op without
\* Redis, and nothing is stored when the commands fail.
SaveQuizKey(store, i, quiz) == IF RedisWorks(i) THEN Put(store, quiz.ID, quiz) ELSE store
SaveQuizActive(active, i, quiz) == IF RedisWorks(i) THEN active \cup {quiz.ID} ELSE active

\* The error SaveQuiz returns: none without Redis, one when SET fails.
SaveQuizFails(i) == rclient[i] /\ redisDown

\* RedisService.SaveUser: SET user:<id>; a no-op without Redis.
SaveUser(store, i, user) == IF RedisWorks(i) THEN Put(store, user.ID, user) ELSE store

\* The hub-side state a broadcast reads and writes.
HubState == [client |-> client, Clients |-> Clients, inbox |-> inbox,
             nPublished |-> nPublished, crashed |-> crashed]

\* What PUBLISH does to the subscriptions: the message is queued for every
\* live subscriber the channel reaches (a subscriber already holding MaxInbox
\* undelivered messages loses it, as Redis drops a subscriber that overflows
\* its output buffer).
Publish(boxes, down, channel, message) ==
  [j \in Instances |->
     IF rclient[j] /\ j \notin down /\ Delivers(SubscribedChannel, channel)
        /\ Len(boxes[j]) < MaxInbox
     THEN Append(boxes[j], [Channel |-> channel, Message |-> message])
     ELSE boxes[j]]

PublishMessageNoNilCheck(h, i, channel, message) ==
  IF redisDown THEN h
  ELSE [h EXCEPT !.nPublished = IF @ < MaxPublished THEN @ + 1 ELSE @,
                 !.inbox = Publish(@, h.crashed, channel, message)]

\* RedisService.PublishMessage: PUBLISH on the channel; a no-op without Redis,
\* and nothing is published when the command fails.
PublishMessage(h, i, channel, message) ==
  IF ~RedisWorks(i) THEN h
  ELSE [h EXCEPT !.nPublished = IF @ < MaxPublished THEN @ + 1 ELSE @,
                 !.inbox = Publish(@, h.crashed, channel, message)]

(***************************************************************************)
(* The hub                                                                 *)
(***************************************************************************)
\* The clients the fan-out loop of broadcastToQuiz selects.
BroadcastTargetsAll(h, i, quizID) == h.Clients[i]

BroadcastTargets(h, i, quizID) ==
  {c \in h.Clients[i] : h.client[c].QuizID = quizID}

\* case client.Send <- data succeeds when the buffer has room.
HasRoom(c) == Len(c.Send) < SendCap

BroadcastKeepFull(h, i, full) == h

BroadcastRemoveUnchecked(h, i, full) ==
  [h EXCEPT !.Clients[i] = @ \ full,
            !.client = [c \in ClientIds |->
                          IF c \in full THEN [@[c] EXCEPT !.closes = @ + 1] ELSE @[c]]]

\* The second pass of broadcastToQuiz: delete and close the clients marked.
BroadcastRemove(h, i, full) ==
  [h EXCEPT !.Clients[i] = @ \ full,
            !.client = [c \in ClientIds |->
                          IF c \in full /\ c \in h.Clients[i]
                          THEN [@[c] EXCEPT !.closes = @ + 1] ELSE @[c]]]

broadcastToQuizPublishOnly(h, i, quizID, message) ==
  PublishMessage(h, i, Channel(quizID), message)

\* QuizService.broadcastToQuiz: non-blocking send to each registered client of
\* the quiz, removal of the clients whose queue was full, then PUBLISH.
broadcastToQuiz(h, i, quizID, message) ==
  LET targets == BroadcastTargets(h, i, quizID)
      clientsToRemove == {c \in targets : ~HasRoom(h.client[c])}
      h1 == [h EXCEPT !.client =
               [c \in ClientIds |->
                  IF c \in targets \ clientsToRemove
                  THEN [@[c] EXCEPT !.Send = Append(@, message)] ELSE @[c]]]
      h2 == IF clientsToRemove # {} THEN BroadcastRemove(h1, i, clientsToRemove) ELSE h1
  IN PublishMessage(h2, i, Channel(quizID), message)

UnregisterClientKeepOpen(h, i, c) ==
  IF c \in h.Clients[i]
  THEN [h EXCEPT !.Clients[i] = @ \ {c}]
  ELSE h

\* QuizService.UnregisterClient: delete and close, if still registered.
UnregisterClient(h, i, c) ==
  IF c \in h.Clients[i]
  THEN [h EXCEPT !.Clients[i] = @ \ {c}, !.client[c].closes = @ + 1]
  ELSE h

sendMessageDropFull(h, c, message) ==
  LET i == h.client[c].Hub
  IN IF h.client[c].closes > 0 THEN [h EXCEPT !.crashed = @ \cup {i}]
     ELSE IF HasRoom(h.client[c]) THEN [h EXCEPT !.client[c].Send = Append(@, message)]
     ELSE h

\* WebSocketHandler.sendMessage: non-blocking send, unregistering on a full
\* queue; a send on a closed channel panics.
sendMessage(h, c, message) ==
  LET i == h.client[c].Hub
  IN IF h.client[c].closes > 0 THEN [h EXCEPT !.crashed = @ \cup {i}]
     ELSE IF HasRoom(h.client[c]) THEN [h EXCEPT !.client[c].Send = Append(@, message)]
     ELSE UnregisterClient(h, i, c)

SetHub(h) ==
  /\ client' = h.client
  /\ Clients' = h.Clients
  /\ inbox' = h.inbox
  /\ nPublished' = h.nPublished
  /\ crashed' = h.crashed

(***************************************************************************)
(* QuizService: the handlers, each as one step                             *)
(***************************************************************************)
Ret(op, i, quizID, userID, err, value) ==
  [op |-> op, inst |-> i, quiz |-> quizID, user |-> userID, err |-> err, value |-> value]

NoValue == << >>

GetQuizStoreFirst(cache, i, quizID) ==
  IF RedisWorks(i) /\ quizID \in DOMAIN redisQuiz
  THEN [found |-> TRUE, cache |-> [cache EXCEPT ![i] = Put(@, quizID, redisQuiz[quizID])]]
  ELSE IF quizID \in DOMAIN cache[i]
  THEN [found |-> TRUE, cache |-> cache]
  ELSE [found |-> FALSE, cache |-> cache]

\* QuizService.GetQuiz: the cached quiz, else the one loaded from Redis and
\* cached; `found` is FALSE when it is in neither.
GetQuiz(cache, i, quizID) ==
  IF quizID \in DOMAIN cache[i]
  THEN [found |-> TRUE, cache |-> cache]
  ELSE IF RedisWorks(i) /\ quizID \in DOMAIN redisQuiz
  THEN [found |-> TRUE, cache |-> [cache EXCEPT ![i] = Put(@, quizID, redisQuiz[quizID])]]
  ELSE [found |-> FALSE, cache |-> cache]

\* QuizService.broadcastLeaderboard, the participants visited in `order`.
broadcastLeaderboard(h, i, quiz, order) ==
  broadcastToQuiz(h, i, quiz.ID,
                  [Type |-> "leaderboard_update", Payload |-> GetLeaderboard(quiz, order)])

\* QuizService.CreateQuiz
CreateQuiz(i) ==
  /\ i \notin crashed
  /\ LET quizID == QuizIdOf(uuidQuiz + 1)
         quiz == NewQuiz(quizID)
     IN /\ uuidQuiz' = uuidQuiz + 1
        /\ redisQuiz' = SaveQuizKey(redisQuiz, i, quiz)
        /\ redisActive' = SaveQuizActive(redisActive, i, quiz)
        /\ IF SaveQuizFails(i)
           THEN /\ UNCHANGED Quizzes
                /\ ret' = Ret("CreateQuiz", i, quizID, "", "PersistenceError", NoValue)
           ELSE /\ Quizzes' = [Quizzes EXCEPT ![i] = Put(@, quizID, quiz)]
                /\ ret' = Ret("CreateQuiz", i, quizID, "", "", NoValue)
  /\ UNCHANGED << Clients, client, rclient, redisDown, history, redisUser, inbox, nPublished, uuidUser,
                  clock, crashed, task >>

\* QuizService.GetQuiz called by the HTTP handler.
GetQuizCall(i, quizID) ==
  /\ i \notin crashed
  /\ LET g == GetQuiz(Quizzes, i, quizID)
     IN /\ Quizzes' = g.cache
        /\ ret' = Ret("GetQuiz", i, quizID, "", IF g.found THEN "" ELSE "NotFound",
                      IF g.found THEN g.cache[i][quizID] ELSE NoValue)
  /\ UNCHANGED << Clients, client, rclient, redisDown, history, redisQuiz, redisUser, redisActive, inbox,
                  nPublished, uuidQuiz, uuidUser, clock, crashed, task >>

\* The state JoinQuiz leaves when the quiz is found: the participant added,
\* quiz and user saved, user_joined and leaderboard_update broadcast.
JoinQuizFound(cache, h, i, quizID, order) ==
  LET userID == UserIdOf(uuidUser + 1)
      user == NewUser(userID)
      quiz == AddParticipant(cache[i][quizID], user)
      h1 == broadcastToQuiz(h, i, quizID, [Type |-> "user_joined", Payload |-> userID])
  IN [cache |-> [cache EXCEPT ![i][quizID] = quiz],
      quiz |-> quiz,
      user |-> user,
      hub |-> broadcastLeaderboard(h1, i, quiz, order)]

\* QuizService.JoinQuiz
JoinQuiz(i, quizID) ==
  /\ i \notin crashed
  /\ LET g == GetQuiz(Quizzes, i, quizID)
     IN IF ~g.found
        THEN /\ Quizzes' = g.cache
             /\ ret' = Ret("JoinQuiz", i, quizID, "", "NotFound", NoValue)
             /\ UNCHANGED << Clients, client, redisQuiz, redisUser, redisActive, inbox,
                             nPublished, uuidUser, crashed >>
        ELSE \E order \in MapOrders(DOMAIN g.cache[i][quizID].Participants
                                         \cup {UserIdOf(uuidUser + 1)}) :
                  LET j == JoinQuizFound(g.cache, HubState, i, quizID, order)
                  IN /\ Quizzes' = j.cache
                     /\ redisQuiz' = SaveQuizKey(redisQuiz, i, j.quiz)
                     /\ redisActive' = SaveQuizActive(redisActive, i, j.quiz)
                     /\ redisUser' = SaveUser(redisUser, i, j.user)
                     /\ uuidUser' = uuidUser + 1
                     /\ SetHub(j.hub)
                     /\ ret' = Ret("JoinQuiz", i, quizID, j.user.ID, "", NoValue)
  /\ UNCHANGED << rclient, redisDown, history, uuidQuiz, clock, task >>

SubmitOutcomeNoCheck(quiz, userID, questionID, answer) ==
  IF userID \notin DOMAIN quiz.Participants THEN [err |-> "NotFound"]
  ELSE IF FindQuestion(questionID) = << >> THEN [err |-> "NotFound"]
  ELSE [err |-> "",
        user |-> AddAnswer(quiz.Participants[userID],
                           AnswerRecord(FindQuestion(questionID)[1], questionID, answer))]

SubmitOutcomeActiveOnly(quiz, userID, questionID, answer) ==
  IF quiz.Status # QuizStatusActive THEN [err |-> "InvalidState"]
  ELSE IF userID \notin DOMAIN quiz.Participants THEN [err |-> "NotFound"]
  ELSE IF HasAnswered(quiz.Participants[userID], questionID) THEN [err |-> "Conflict"]
  ELSE IF FindQuestion(questionID) = << >> THEN [err |-> "NotFound"]
  ELSE [err |-> "",
        user |-> AddAnswer(quiz.Participants[userID],
                           AnswerRecord(FindQuestion(questionID)[1], questionID, answer))]

\* The checks of SubmitAnswer in the order of the code, and the user record
\* after AddAnswer when they all pass.
SubmitOutcome(quiz, userID, questionID, answer) ==
  IF userID \notin DOMAIN quiz.Participants THEN [err |-> "NotFound"]
  ELSE IF HasAnswered(quiz.Participants[userID], questionID) THEN [err |-> "Conflict"]
  ELSE IF FindQuestion(questionID) = << >> THEN [err |-> "NotFound"]
  ELSE [err |-> "",
        user |-> AddAnswer(quiz.Participants[userID],
                           AnswerRecord(FindQuestion(questionID)[1], questionID, answer))]

\* QuizService.SubmitAnswer
SubmitAnswer(i, quizID, userID, questionID, answer) ==
  /\ i \notin crashed
  /\ LET g == GetQuiz(Quizzes, i, quizID)
         o == IF g.found THEN SubmitOutcome(g.cache[i][quizID], userID, questionID, answer)
              ELSE [err |-> "NotFound"]
     IN IF o.err # ""
        THEN /\ Quizzes' = g.cache
             /\ ret' = Ret("SubmitAnswer", i, quizID, userID, o.err, questionID)
             /\ UNCHANGED << Clients, client, redisQuiz, redisUser, redisActive, inbox,
                             nPublished, crashed >>
        ELSE LET quiz == PutUser(g.cache[i][quizID], o.user)
                 h1 == broadcastToQuiz(HubState, i, quizID,
                         [Type |-> "score_update",
                          Payload |-> [UserID |-> userID, Score |-> o.user.Score]])
             IN \E order \in MapOrders(DOMAIN quiz.Participants) :
                  /\ Quizzes' = [g.cache EXCEPT ![i][quizID] = quiz]
                  /\ redisQuiz' = SaveQuizKey(redisQuiz, i, quiz)
                  /\ redisActive' = SaveQuizActive(redisActive, i, quiz)
                  /\ redisUser' = SaveUser(redisUser, i, o.user)
                  /\ SetHub(broadcastLeaderboard(h1, i, quiz, order))
                  /\ ret' = Ret("SubmitAnswer", i, quizID, userID, "", questionID)
  /\ UNCHANGED << rclient, redisDown, history, uuidQuiz, uuidUser, clock, task >>

\* QuizService.GetLeaderboard
GetLeaderboardCall(i, quizID) ==
  /\ i \notin crashed
  /\ LET g == GetQuiz(Quizzes, i, quizID)
     IN /\ Quizzes' = g.cache
        /\ IF ~g.found
           THEN ret' = Ret("GetLeaderboard", i, quizID, "", "NotFound", NoValue)
           ELSE \E order \in MapOrders(DOMAIN g.cache[i][quizID].Participants) :
                  ret' = Ret("GetLeaderboard", i, quizID, "", "",
                             GetLeaderboard(g.cache[i][quizID], order))
  /\ UNCHANGED << Clients, client, rclient, redisDown, history, redisQuiz, redisUser, redisActive, inbox,
                  nPublished, uuidQuiz, uuidUser, clock, crashed, task >>

StartAllowedAlways(quiz) == TRUE

\* The guard of StartQuiz: quiz.Status == QuizStatusWaiting.
StartAllowed(quiz) == quiz.Status = QuizStatusWaiting

\* QuizService.StartQuiz
StartQuiz(i, quizID) ==
  /\ i \notin crashed
  /\ LET g == GetQuiz(Quizzes, i, quizID)
     IN IF ~g.found \/ ~StartAllowed(g.cache[i][quizID])
        THEN /\ Quizzes' = g.cache
             /\ ret' = Ret("StartQuiz", i, quizID, "",
                           IF g.found THEN "InvalidState" ELSE "NotFound", NoValue)
             /\ UNCHANGED << Clients, client, redisQuiz, redisActive, inbox, nPublished,
                             crashed, clock >>
        ELSE LET now == clock + 1
                    quiz == [g.cache[i][quizID] EXCEPT !.Status = QuizStatusActive,
                                                       !.StartedAt = now]
                IN /\ clock' = now
                   /\ Quizzes' = [g.cache EXCEPT ![i][quizID] = quiz]
                   /\ redisQuiz' = SaveQuizKey(redisQuiz, i, quiz)
                   /\ redisActive' = SaveQuizActive(redisActive, i, quiz)
                   /\ SetHub(broadcastToQuiz(HubState, i, quizID,
                               [Type |-> "quiz_started", Payload |-> now]))
                   /\ ret' = Ret("StartQuiz", i, quizID, "", "", NoValue)
  /\ UNCHANGED << rclient, redisDown, history, redisUser, uuidQuiz, uuidUser, task >>

\* QuizService.EndQuiz
EndQuiz(i, quizID) ==
  /\ i \notin crashed
  /\ LET g == GetQuiz(Quizzes, i, quizID)
     IN IF ~g.found
        THEN /\ Quizzes' = g.cache
             /\ ret' = Ret("EndQuiz", i, quizID, "", "NotFound", NoValue)
             /\ UNCHANGED << Clients, client, redisQuiz, redisActive, inbox, nPublished,
                             crashed, clock >>
        ELSE LET now == clock + 1
                    quiz == [g.cache[i][quizID] EXCEPT !.Status = QuizStatusEnded,
                                                       !.EndedAt = now]
                IN /\ clock' = now
                   /\ Quizzes' = [g.cache EXCEPT ![i][quizID] = quiz]
                   /\ redisQuiz' = SaveQuizKey(redisQuiz, i, quiz)
                   /\ redisActive' = SaveQuizActive(redisActive, i, quiz)
                   /\ SetHub(broadcastToQuiz(HubState, i, quizID,
                               [Type |-> "quiz_ended", Payload |-> now]))
                   /\ ret' = Ret("EndQuiz", i, quizID, "", "", NoValue)
  /\ UNCHANGED << rclient, redisDown, history, redisUser, uuidQuiz, uuidUser, task >>

\* HTTPHandler.DeleteQuiz: the quiz leaves this instance's registry, then
\* RedisService.DeleteQuiz issues DEL quiz:<id> and SREM active_quizzes, logs
\* their failures and returns nil; the response is always 200.
DeleteQuiz(i, quizID) ==
  /\ i \notin crashed
  /\ Quizzes' = [Quizzes EXCEPT ![i] = Delete(@, quizID)]
  /\ redisQuiz' = IF RedisWorks(i) THEN Delete(redisQuiz, quizID) ELSE redisQuiz
  /\ redisActive' = IF RedisWorks(i) THEN redisActive \ {quizID} ELSE redisActive
  /\ ret' = Ret("DeleteQuiz", i, quizID, "", "", NoValue)
  /\ UNCHANGED << Clients, client, rclient, redisDown, history, redisUser, inbox, nPublished,
                  uuidQuiz, uuidUser, clock, crashed, task >>

\* RedisService.GetActiveQuizzes: SMEMBERS active_quizzes; the empty list
\* without a Redis client, an error when the command fails.
GetActiveQuizzes(i) ==
  IF ~rclient[i] THEN [err |-> "", ids |-> {}]
  ELSE IF redisDown THEN [err |-> "PersistenceError", ids |-> {}]
  ELSE [err |-> "", ids |-> redisActive]

RECURSIVE LoadListed(_, _, _, _)
\* The loop of HTTPHandler.GetActiveQuizzes: GetQuiz for each listed id, the
\* ids that cannot be loaded skipped.
LoadListed(cache, i, order, quizzes) ==
  IF order = << >> THEN [cache |-> cache, quizzes |-> quizzes]
  ELSE LET g == GetQuiz(cache, i, Head(order))
       IN LoadListed(g.cache, i, Tail(order),
                     IF g.found THEN Append(quizzes, g.cache[i][Head(order)]) ELSE quizzes)

\* HTTPHandler.GetActiveQuizzes, the members of the set returned in `order`.
GetActiveQuizzesCall(i) ==
  /\ i \notin crashed
  /\ LET a == GetActiveQuizzes(i)
     IN IF a.err # ""
        THEN /\ ret' = Ret("GetActiveQuizzes", i, "", "", a.err, NoValue)
             /\ UNCHANGED Quizzes
        ELSE \E order \in MapOrders(a.ids) :
               LET l == LoadListed(Quizzes, i, order, << >>)
               IN /\ Quizzes' = l.cache
                  /\ ret' = Ret("GetActiveQuizzes", i, "", "", "", l.quizzes)
  /\ UNCHANGED << Clients, client, rclient, redisDown, history, redisQuiz, redisUser,
                  redisActive, inbox, nPublished, uuidQuiz, uuidUser, clock, crashed, task >>

(***************************************************************************)
(* WebSocketHandler                                                        *)
(***************************************************************************)
\* WebSocketHandler.HandleWebSocket: a new Client, registered, its pumps started.
HandleWebSocket(i) ==
  /\ i \notin crashed
  /\ \E c \in ClientIds :
       /\ client[c].Hub = ""
       /\ \A d \in ClientIds : d < c => client[d].Hub # ""
       /\ client' = [client EXCEPT ![c] = [NoClient EXCEPT !.Hub = i, !.reading = TRUE]]
       /\ Clients' = [Clients EXCEPT ![i] = @ \cup {c}]
       /\ ret' = Ret("HandleWebSocket", i, "", "", "", c)
  /\ UNCHANGED << Quizzes, rclient, redisDown, history, redisQuiz, redisUser, redisActive, inbox, nPublished,
                  uuidQuiz, uuidUser, clock, crashed, task >>

\* The exit of readPump (the peer closed the connection or a read failed):
\* the deferred UnregisterClient.
ReadPumpExit(c) ==
  /\ client[c].reading
  /\ client[c].Hub \notin crashed
  /\ SetHub([UnregisterClient(HubState, client[c].Hub, c) EXCEPT !.client[c].reading = FALSE])
  /\ ret' = Ret("readPump", client[c].Hub, "", "", "closed", c)
  /\ UNCHANGED << Quizzes, rclient, redisDown, history, redisQuiz, redisUser, redisActive, uuidQuiz, uuidUser,
                  clock, task >>

\* One round of writePump: the message received and those queued behind it
\* are written to the connection.
WritePump(c) ==
  /\ client[c].Hub # ""
  /\ client[c].Hub \notin crashed
  /\ client[c].Send # << >>
  /\ client' = [client EXCEPT ![c].Send = << >>]
  /\ ret' = Ret("writePump", client[c].Hub, "", "", "", c)
  /\ UNCHANGED << Quizzes, Clients, rclient, redisDown, history, redisQuiz, redisUser, redisActive, inbox,
                  nPublished, uuidQuiz, uuidUser, clock, crashed, task >>

\* WebSocketHandler.sendError
sendError(h, c, errorMessage) ==
  sendMessage(h, c, [Type |-> "error", Payload |-> errorMessage])

\* WebSocketHandler.handleJoinQuiz with a quiz id and a name given.
handleJoinQuiz(c, quizID) ==
  /\ client[c].reading
  /\ client[c].Hub \notin crashed
  /\ LET i == client[c].Hub
         g == GetQuiz(Quizzes, i, quizID)
     IN IF ~g.found
        THEN /\ Quizzes' = g.cache
             /\ SetHub(sendError(HubState, c, "Failed to join quiz"))
             /\ ret' = Ret("handleJoinQuiz", i, quizID, "", "NotFound", c)
             /\ UNCHANGED << redisQuiz, redisUser, redisActive, uuidUser >>
        ELSE \E order, order2 \in MapOrders(DOMAIN g.cache[i][quizID].Participants
                                                 \cup {UserIdOf(uuidUser + 1)}) :
                  LET j == JoinQuizFound(g.cache, HubState, i, quizID, order)
                      h1 == [j.hub EXCEPT !.client[c].QuizID = quizID,
                                          !.client[c].UserID = j.user.ID]
                      h2 == sendMessage(h1, c, [Type |-> "join_success", Payload |-> j.user.ID])
                      h3 == IF i \in h2.crashed THEN h2
                            ELSE sendMessage(h2, c,
                                   [Type |-> "quiz_state",
                                    Payload |-> [Status |-> j.quiz.Status,
                                                 Leaderboard |-> GetLeaderboard(j.quiz, order2)]])
                  IN /\ Quizzes' = j.cache
                     /\ redisQuiz' = SaveQuizKey(redisQuiz, i, j.quiz)
                     /\ redisActive' = SaveQuizActive(redisActive, i, j.quiz)
                     /\ redisUser' = SaveUser(redisUser, i, j.user)
                     /\ uuidUser' = uuidUser + 1
                     /\ SetHub(h3)
                     /\ ret' = Ret("handleJoinQuiz", i, quizID, j.user.ID, "", c)
  /\ UNCHANGED << rclient, redisDown, history, uuidQuiz, clock, task >>

\* WebSocketHandler.handleJoinQuiz with the quiz id or the name left out of
\* the payload: the request is answered with an error before JoinQuiz is
\* called.
handleJoinQuizMissing(c) ==
  /\ client[c].reading
  /\ client[c].Hub \notin crashed
  /\ SetHub(sendError(HubState, c, "Quiz ID and name are required"))
  /\ ret' = Ret("handleJoinQuiz", client[c].Hub, "", "", "Quiz ID and name are required", c)
  /\ UNCHANGED << Quizzes, rclient, redisDown, history, redisQuiz, redisUser, redisActive,
                  uuidQuiz, uuidUser, clock, task >>

\* The first statement of handleSubmitAnswer, handleStartQuiz and
\* handleEndQuiz when the client has not joined: the error reply and return.
MustJoinFirst(op, c) ==
  /\ SetHub(sendError(HubState, c, "Must join a quiz first"))
  /\ ret' = Ret(op, client[c].Hub, "", "", "Must join a quiz first", c)
  /\ UNCHANGED << Quizzes, rclient, redisDown, history, redisQuiz, redisUser, redisActive,
                  uuidQuiz, uuidUser, clock, task >>

\* WebSocketHandler.handleSubmitAnswer: SubmitAnswer for the quiz and the
\* user the client is bound to, then the answer_submitted reply.
handleSubmitAnswer(c, questionID, answer) ==
  /\ client[c].reading
  /\ client[c].Hub \notin crashed
  /\ IF client[c].QuizID = "" \/ client[c].UserID = ""
     THEN MustJoinFirst("handleSubmitAnswer", c)
     ELSE LET i == client[c].Hub
              quizID == client[c].QuizID
              userID == client[c].UserID
              g == GetQuiz(Quizzes, i, quizID)
              o == IF g.found THEN SubmitOutcome(g.cache[i][quizID], userID, questionID, answer)
                   ELSE [err |-> "NotFound"]
          IN /\ IF o.err # ""
                THEN /\ Quizzes' = g.cache
                     /\ SetHub(sendError(HubState, c, "Failed to submit answer"))
                     /\ ret' = Ret("handleSubmitAnswer", i, quizID, userID, o.err, c)
                     /\ UNCHANGED << redisQuiz, redisUser, redisActive >>
                ELSE LET quiz == PutUser(g.cache[i][quizID], o.user)
                         h1 == broadcastToQuiz(HubState, i, quizID,
                                 [Type |-> "score_update",
                                  Payload |-> [UserID |-> userID, Score |-> o.user.Score]])
                     IN \E order \in MapOrders(DOMAIN quiz.Participants) :
                          /\ Quizzes' = [g.cache EXCEPT ![i][quizID] = quiz]
                          /\ redisQuiz' = SaveQuizKey(redisQuiz, i, quiz)
                          /\ redisActive' = SaveQuizActive(redisActive, i, quiz)
                          /\ redisUser' = SaveUser(redisUser, i, o.user)
                          /\ SetHub(sendMessage(broadcastLeaderboard(h1, i, quiz, order), c,
                                      [Type |-> "answer_submitted", Payload |-> questionID]))
                          /\ ret' = Ret("handleSubmitAnswer", i, quizID, userID, "", c)
             /\ UNCHANGED << rclient, redisDown, history, uuidQuiz, uuidUser, clock, task >>

handleStartQuizUnbound(c, quizID) ==
  /\ client[c].reading
  /\ client[c].Hub \notin crashed
  /\ LET i == client[c].Hub
         g == GetQuiz(Quizzes, i, quizID)
     IN IF ~g.found \/ ~StartAllowed(g.cache[i][quizID])
        THEN /\ Quizzes' = g.cache
             /\ SetHub(sendError(HubState, c, "Failed to start quiz"))
             /\ ret' = Ret("handleStartQuiz", i, quizID, "",
                           IF g.found THEN "InvalidState" ELSE "NotFound", c)
             /\ UNCHANGED << rclient, redisDown, history, redisQuiz, redisUser, redisActive,
                             uuidQuiz, uuidUser, clock, task >>
        ELSE LET now == clock + 1
                 quiz == [g.cache[i][quizID] EXCEPT !.Status = QuizStatusActive,
                                                    !.StartedAt = now]
             IN /\ clock' = now
                /\ Quizzes' = [g.cache EXCEPT ![i][quizID] = quiz]
                /\ redisQuiz' = SaveQuizKey(redisQuiz, i, quiz)
                /\ redisActive' = SaveQuizActive(redisActive, i, quiz)
                /\ SetHub(broadcastToQuiz(HubState, i, quizID,
                            [Type |-> "quiz_started", Payload |-> now]))
                /\ ret' = Ret("handleStartQuiz", i, quizID, "", "", c)
                /\ UNCHANGED << rclient, redisDown, history, redisUser, uuidQuiz, uuidUser,
                                task >>

\* WebSocketHandler.handleStartQuiz: StartQuiz for the quiz id of the payload
\* once the client is bound to some quiz; nothing is replied on success.
handleStartQuiz(c, quizID) ==
  /\ client[c].reading
  /\ client[c].Hub \notin crashed
  /\ LET i == client[c].Hub
         g == GetQuiz(Quizzes, i, quizID)
     IN IF client[c].QuizID = ""
        THEN MustJoinFirst("handleStartQuiz", c)
        ELSE IF ~g.found \/ ~StartAllowed(g.cache[i][quizID])
        THEN /\ Quizzes' = g.cache
             /\ SetHub(sendError(HubState, c, "Failed to start quiz"))
             /\ ret' = Ret("handleStartQuiz", i, quizID, "",
                           IF g.found THEN "InvalidState" ELSE "NotFound", c)
             /\ UNCHANGED << rclient, redisDown, history, redisQuiz, redisUser, redisActive,
                             uuidQuiz, uuidUser, clock, task >>
        ELSE LET now == clock + 1
                 quiz == [g.cache[i][quizID] EXCEPT !.Status = QuizStatusActive,
                                                    !.StartedAt = now]
             IN /\ clock' = now
                /\ Quizzes' = [g.cache EXCEPT ![i][quizID] = quiz]
                /\ redisQuiz' = SaveQuizKey(redisQuiz, i, quiz)
                /\ redisActive' = SaveQuizActive(redisActive, i, quiz)
                /\ SetHub(broadcastToQuiz(HubState, i, quizID,
                            [Type |-> "quiz_started", Payload |-> now]))
                /\ ret' = Ret("handleStartQuiz", i, quizID, "", "", c)
                /\ UNCHANGED << rclient, redisDown, history, redisUser, uuidQuiz, uuidUser,
                                task >>

\* WebSocketHandler.handleEndQuiz: EndQuiz for the quiz id of the payload
\* once the client is bound to some quiz; nothing is replied on success.
handleEndQuiz(c, quizID) ==
  /\ client[c].reading
  /\ client[c].Hub \notin crashed
  /\ LET i == client[c].Hub
         g == GetQuiz(Quizzes, i, quizID)
     IN IF client[c].QuizID = ""
        THEN MustJoinFirst("handleEndQuiz", c)
        ELSE IF ~g.found
        THEN /\ Quizzes' = g.cache
             /\ SetHub(sendError(HubState, c, "Failed to end quiz"))
             /\ ret' = Ret("handleEndQuiz", i, quizID, "", "NotFound", c)
             /\ UNCHANGED << rclient, redisDown, history, redisQuiz, redisUser, redisActive,
                             uuidQuiz, uuidUser, clock, task >>
        ELSE LET now == clock + 1
                 quiz == [g.cache[i][quizID] EXCEPT !.Status = QuizStatusEnded,
                                                    !.EndedAt = now]
             IN /\ clock' = now
                /\ Quizzes' = [g.cache EXCEPT ![i][quizID] = quiz]
                /\ redisQuiz' = SaveQuizKey(redisQuiz, i, quiz)
                /\ redisActive' = SaveQuizActive(redisActive, i, quiz)
                /\ SetHub(broadcastToQuiz(HubState, i, quizID,
                            [Type |-> "quiz_ended", Payload |-> now]))
                /\ ret' = Ret("handleEndQuiz", i, quizID, "", "", c)
                /\ UNCHANGED << rclient, redisDown, history, redisUser, uuidQuiz, uuidUser,
                                task >>

\* WebSocketHandler.handleMessage, the default case of the switch: a message
\* whose type is none of join_quiz, submit_answer, start_quiz, end_quiz is
\* answered with an error.
handleUnknownType(c) ==
  /\ client[c].reading
  /\ client[c].Hub \notin crashed
  /\ SetHub(sendError(HubState, c, "Unknown message type"))
  /\ ret' = Ret("handleMessage", client[c].Hub, "", "", "Unknown message type", c)
  /\ UNCHANGED << Quizzes, rclient, redisDown, history, redisQuiz, redisUser, redisActive,
                  uuidQuiz, uuidUser, clock, task >>

(***************************************************************************)
(* The relay                                                               *)
(***************************************************************************)
\* Another Redis client publishes on the channel the instances subscribed to.
ExternalPublish ==
  /\ ~redisDown
  /\ \E j \in Instances : rclient[j] /\ j \notin crashed /\ Len(inbox[j]) < MaxInbox
  /\ inbox' = Publish(inbox, crashed, SubscribedChannel,
                      [Type |-> "quiz_ended", Payload |-> Nil])
  /\ ret' = Ret("ExternalPublish", "", SubscribedChannel.id, "", "", NoValue)
  /\ UNCHANGED << Quizzes, Clients, client, rclient, redisDown, history, redisQuiz, redisUser, redisActive,
                  nPublished, uuidQuiz, uuidUser, clock, crashed, task >>

\* One round of the loop of startRedisSubscription: ReceiveMessage, the quiz
\* id cut from the channel name, broadcastToQuiz.
RelayReceive(i) ==
  /\ i \notin crashed
  /\ rclient[i]
  /\ inbox[i] # << >>
  /\ LET msg == Head(inbox[i])
         quizID == msg.Channel.id
     IN SetHub(broadcastToQuiz([HubState EXCEPT !.inbox[i] = Tail(@)], i, quizID, msg.Message))
  /\ ret' = Ret("startRedisSubscription", i, Head(inbox[i]).Channel.id, "", "", NoValue)
  /\ UNCHANGED << Quizzes, rclient, redisDown, history, redisQuiz, redisUser, redisActive, uuidQuiz, uuidUser,
                  clock, task >>

(***************************************************************************)
(* Specifications                                                          *)
(***************************************************************************)
\* Both instances started with Redis available and nothing stored.
Init ==
  /\ Quizzes = [i \in Instances |-> << >>]
  /\ Clients = [i \in Instances |-> {}]
  /\ client = [c \in ClientIds |-> NoClient]
  /\ rclient = [i \in Instances |-> TRUE]
  /\ redisDown = FALSE
  /\ history = {}
  /\ redisQuiz = << >>
  /\ redisUser = << >>
  /\ redisActive = {}
  /\ inbox = [i \in Instances |-> << >>]
  /\ nPublished = 0
  /\ uuidQuiz = 0
  /\ uuidUser = 0
  /\ clock = 0
  /\ crashed = {}
  /\ ret = Ret("", "", "", "", "", NoValue)
  /\ task = << >>

\* The store requests one instance serves, each handler as one step.
StoreCalls(i) ==
  \/ uuidQuiz < MaxQuizzes /\ CreateQuiz(i)
  \/ \E quizID \in QuizIdInputs :
       \/ GetQuizCall(i, quizID)
       \/ uuidUser < MaxUsers /\ JoinQuiz(i, quizID)
       \/ GetLeaderboardCall(i, quizID)
       \/ clock < MaxClock /\ StartQuiz(i, quizID)
       \/ clock < MaxClock /\ EndQuiz(i, quizID)
       \/ \E userID \in UserIdInputs, questionID \in QuestionInputs, answer \in ChoiceInputs :
            SubmitAnswer(i, quizID, userID, questionID, answer)

\* One instance serving store requests, no websocket connected.
Next == StoreCalls("A")

Spec == Init /\ [][Next]_vars

(***************************************************************************)
(* The hub scenario: one instance, websocket clients joining quizzes that  *)
(* are started and ended.                                                  *)
(***************************************************************************)
HubQuizIdInputs == {QuizIdOf(n) : n \in 1..HubQuizzes}

HubCalls(i) ==
  \/ uuidQuiz < HubQuizzes /\ CreateQuiz(i)
  \/ HandleWebSocket(i)
  \/ \E quizID \in HubQuizIdInputs :
       \/ clock < MaxClock /\ StartQuiz(i, quizID)
       \/ clock < MaxClock /\ EndQuiz(i, quizID)
       \/ \E c \in ClientIds : uuidUser < HubUsers /\ handleJoinQuiz(c, quizID)
  \/ \E c \in ClientIds : ReadPumpExit(c) \/ WritePump(c)

NextHub == HubCalls("A")

SpecHub == Init /\ [][NextHub]_vars

(***************************************************************************)
(* The leaderboard scenario: a quiz whose participants have each answered  *)
(* some of the questions correctly, and GetLeaderboard called on it.       *)
(***************************************************************************)
RECURSIVE AnswerAll(_, _, _)
\* The user after answering the questions numbered in S correctly, in order.
AnswerAll(user, S, k) ==
  IF k > Len(getSampleQuestions) THEN user
  ELSE AnswerAll(IF k \in S
                 THEN AddAnswer(user, AnswerRecord(getSampleQuestions[k],
                                                   getSampleQuestions[k].ID,
                                                   getSampleQuestions[k].Correct))
                 ELSE user, S, k + 1)

InitLeaderboard ==
  /\ \E n \in 0..LbUsers :
       \E answered \in [1..n -> SUBSET (1..LbQuestions)] :
         LET quiz == [NewQuiz(QuizIdOf(1)) EXCEPT !.Participants =
                        [u \in {UserIdOf(k) : k \in 1..n} |->
                           AnswerAll(NewUser(u),
                                     answered[CHOOSE k \in 1..n : UserIdOf(k) = u], 1)]]
         IN /\ Quizzes = [i \in Instances |-> IF i = "A" THEN Put(<< >>, quiz.ID, quiz) ELSE << >>]
            /\ redisQuiz = Put(<< >>, quiz.ID, quiz)
            /\ redisUser = quiz.Participants
            /\ redisActive = {quiz.ID}
            /\ uuidUser = n
  /\ Clients = [i \in Instances |-> {}]
  /\ client = [c \in ClientIds |-> NoClient]
  /\ rclient = [i \in Instances |-> TRUE]
  /\ redisDown = FALSE
  /\ history = {}
  /\ inbox = [i \in Instances |-> << >>]
  /\ nPublished = 0
  /\ uuidQuiz = 1
  /\ clock = 0
  /\ crashed = {}
  /\ ret = Ret("", "", "", "", "", NoValue)
  /\ task = << >>

NextLeaderboard == GetLeaderboardCall("A", QuizIdOf(1))

SpecLeaderboard == InitLeaderboard /\ [][NextLeaderboard]_vars

(***************************************************************************)
(* The race scenario: SubmitAnswer served by concurrent goroutines of       *)
(* instance A, one step per access to the shared quiz, while instance B     *)
(* reads the quiz through GetQuiz.  HasAnswered and AddAnswer each run      *)
(* under the user's lock and are one step; json.Marshal in SaveQuiz takes   *)
(* no lock and reads field after field.                                     *)
(***************************************************************************)
Idle ==
  [pc |-> "idle", inst |-> "", quiz |-> "", user |-> "", question |-> "", answer |-> 0,
   record |-> << >>, keys |-> << >>, snap |-> << >>, marked |-> {}]

TaskIds == 1..MaxTasks

\* The order in which json.Marshal encodes the keys of a map: sorted.
SortedKeys(S) == SelectSeq([n \in 1..uuidUser |-> UserIdOf(n)], LAMBDA u : u \in S)

\* The quiz and the user a running SubmitAnswer holds pointers to.
TaskQuiz(t) == Quizzes[task[t].inst][task[t].quiz]
TaskUser(t) == TaskQuiz(t).Participants[task[t].user]

\* A quiz created and joined by one user on instance A; B has not read it.
InitRace ==
  /\ LET quiz == AddParticipant(NewQuiz(QuizIdOf(1)), NewUser(UserIdOf(1)))
     IN /\ Quizzes = [i \in Instances |-> IF i = "A" THEN Put(<< >>, quiz.ID, quiz) ELSE << >>]
        /\ redisQuiz = Put(<< >>, quiz.ID, quiz)
        /\ redisUser = quiz.Participants
        /\ redisActive = {quiz.ID}
  /\ Clients = [i \in Instances |-> {}]
  /\ client = [c \in ClientIds |-> NoClient]
  /\ rclient = [i \in Instances |-> TRUE]
  /\ redisDown = FALSE
  /\ history = {}
  /\ inbox = [i \in Instances |-> << >>]
  /\ nPublished = 0
  /\ uuidQuiz = 1
  /\ uuidUser = 1
  /\ clock = 0
  /\ crashed = {}
  /\ ret = Ret("", "", "", "", "", NoValue)
  /\ task = [t \in TaskIds |-> Idle]

\* SubmitAnswer, lines 139-147: GetQuiz and the lookup of the participant.
SubmitBegin(t, i, quizID, userID, questionID, answer) ==
  /\ task[t].pc = "idle"
  /\ i \notin crashed
  /\ LET g == GetQuiz(Quizzes, i, quizID)
     IN /\ Quizzes' = g.cache
        /\ IF g.found /\ userID \in DOMAIN g.cache[i][quizID].Participants
           THEN /\ task' = [task EXCEPT ![t] =
                      [Idle EXCEPT !.pc = "check", !.inst = i, !.quiz = quizID,
                                   !.user = userID, !.question = questionID,
                                   !.answer = answer]]
                /\ UNCHANGED ret
           ELSE /\ ret' = Ret("SubmitAnswer", i, quizID, userID, "NotFound", questionID)
                /\ UNCHANGED task
  /\ UNCHANGED << Clients, client, rclient, redisDown, history, redisQuiz, redisUser, redisActive, inbox,
                  nPublished, uuidQuiz, uuidUser, clock, crashed >>

\* SubmitAnswer, lines 150-181: HasAnswered, the question lookup, the record.
SubmitCheck(t) ==
  /\ task[t].pc = "check"
  /\ LET err == IF HasAnswered(TaskUser(t), task[t].question) THEN "Conflict"
                ELSE IF FindQuestion(task[t].question) = << >> THEN "NotFound"
                ELSE ""
     IN IF err # ""
        THEN /\ task' = [task EXCEPT ![t] = Idle]
             /\ ret' = Ret("SubmitAnswer", task[t].inst, task[t].quiz, task[t].user, err,
                           task[t].question)
        ELSE /\ task' = [task EXCEPT ![t].pc = "add",
                                     ![t].record =
                                        AnswerRecord(FindQuestion(task[t].question)[1],
                                                     task[t].question, task[t].answer)]
             /\ UNCHANGED ret
  /\ UNCHANGED << Quizzes, Clients, client, rclient, redisDown, history, redisQuiz, redisUser, redisActive,
                  inbox, nPublished, uuidQuiz, uuidUser, clock, crashed >>

\* The score of every participant of a quiz.
ScoreTable(quiz) == [u \in DOMAIN quiz.Participants |-> quiz.Participants[u].Score]

\* SubmitAnswer, line 184: user.AddAnswer(answerRecord).
SubmitAdd(t) ==
  /\ task[t].pc = "add"
  /\ Quizzes' = [Quizzes EXCEPT ![task[t].inst][task[t].quiz] =
                   PutUser(@, AddAnswer(TaskUser(t), task[t].record))]
  /\ history' = history \cup {ScoreTable(Quizzes'[task[t].inst][task[t].quiz])}
  /\ task' = [task EXCEPT ![t].pc = "marshal"]
  /\ UNCHANGED << Clients, client, rclient, redisDown, redisQuiz, redisUser, redisActive, inbox,
                  nPublished, uuidQuiz, uuidUser, clock, crashed, ret >>

\* SaveQuiz: the nil check, and json.Marshal reaching the Participants map,
\* whose entries it collects and sorts before encoding them.
MarshalKeys(t) ==
  /\ task[t].pc = "marshal"
  /\ task' = [task EXCEPT
       ![t].pc = IF ~rclient[task[t].inst] THEN "saved"
                 ELSE IF DOMAIN TaskQuiz(t).Participants = {} THEN "tail" ELSE "score",
       ![t].keys = IF rclient[task[t].inst]
                   THEN SortedKeys(DOMAIN TaskQuiz(t).Participants) ELSE << >>]
  /\ UNCHANGED << Quizzes, Clients, client, rclient, redisDown, history, redisQuiz, redisUser, redisActive,
                  inbox, nPublished, uuidQuiz, uuidUser, clock, crashed, ret >>

\* json.Marshal encoding a User: the field Score is read.
MarshalScore(t) ==
  /\ task[t].pc = "score"
  /\ LET u == Head(task[t].keys)
     IN task' = [task EXCEPT
          ![t].pc = "answers",
          ![t].snap = Put(@, u, [NewUser(u) EXCEPT !.Score = TaskQuiz(t).Participants[u].Score])]
  /\ UNCHANGED << Quizzes, Clients, client, rclient, redisDown, history, redisQuiz, redisUser, redisActive,
                  inbox, nPublished, uuidQuiz, uuidUser, clock, crashed, ret >>

\* json.Marshal encoding a User: the field Answers is read.
MarshalAnswers(t) ==
  /\ task[t].pc = "answers"
  /\ LET u == Head(task[t].keys)
     IN task' = [task EXCEPT
          ![t].pc = IF Tail(task[t].keys) = << >> THEN "tail" ELSE "score",
          ![t].keys = Tail(@),
          ![t].snap = [@ EXCEPT ![u].Answers = TaskQuiz(t).Participants[u].Answers]]
  /\ UNCHANGED << Quizzes, Clients, client, rclient, redisDown, history, redisQuiz, redisUser, redisActive,
                  inbox, nPublished, uuidQuiz, uuidUser, clock, crashed, ret >>

\* json.Marshal encoding the fields of the Quiz after Participants.
MarshalTail(t) ==
  /\ task[t].pc = "tail"
  /\ task' = [task EXCEPT
       ![t].pc = "set",
       ![t].snap = [TaskQuiz(t) EXCEPT !.Participants = task[t].snap]]
  /\ UNCHANGED << Quizzes, Clients, client, rclient, redisDown, history, redisQuiz, redisUser, redisActive,
                  inbox, nPublished, uuidQuiz, uuidUser, clock, crashed, ret >>

\* SaveQuiz, lines 52-59: SET quiz:<id> with the encoded quiz, SADD.
SaveQuizSet(t) ==
  /\ task[t].pc = "set"
  /\ redisQuiz' = SaveQuizKey(redisQuiz, task[t].inst, task[t].snap)
  /\ redisActive' = SaveQuizActive(redisActive, task[t].inst, task[t].snap)
  /\ task' = [task EXCEPT ![t].pc = "saved", ![t].snap = << >>]
  /\ UNCHANGED << Quizzes, Clients, client, rclient, redisDown, history, redisUser, inbox, nPublished,
                  uuidQuiz, uuidUser, clock, crashed, ret >>

\* SubmitAnswer, line 192: SaveUser (no modelled code reads the key back, so
\* its encoding is one step).
SubmitSaveUser(t) ==
  /\ task[t].pc = "saved"
  /\ redisUser' = SaveUser(redisUser, task[t].inst, TaskUser(t))
  /\ task' = [task EXCEPT ![t].pc = "score_update"]
  /\ UNCHANGED << Quizzes, Clients, client, rclient, redisDown, history, redisQuiz, redisActive, inbox,
                  nPublished, uuidQuiz, uuidUser, clock, crashed, ret >>

\* SubmitAnswer, lines 198-205: the score_update broadcast.
SubmitBroadcastScore(t) ==
  /\ task[t].pc = "score_update"
  /\ SetHub(broadcastToQuiz(HubState, task[t].inst, task[t].quiz,
              [Type |-> "score_update",
               Payload |-> [UserID |-> task[t].user, Score |-> TaskUser(t).Score]]))
  /\ task' = [task EXCEPT ![t].pc = "leaderboard"]
  /\ UNCHANGED << Quizzes, rclient, redisDown, history, redisQuiz, redisUser, redisActive, uuidQuiz, uuidUser,
                  clock, ret >>

\* SubmitAnswer, lines 208-212: broadcastLeaderboard, and the return.
SubmitBroadcastLeaderboard(t) ==
  /\ task[t].pc = "leaderboard"
  /\ \E order \in MapOrders(DOMAIN TaskQuiz(t).Participants) :
       SetHub(broadcastLeaderboard(HubState, task[t].inst, TaskQuiz(t), order))
  /\ task' = [task EXCEPT ![t] = Idle]
  /\ ret' = Ret("SubmitAnswer", task[t].inst, task[t].quiz, task[t].user, "",
                task[t].question)
  /\ UNCHANGED << Quizzes, rclient, redisDown, history, redisQuiz, redisUser, redisActive, uuidQuiz, uuidUser,
                  clock >>

\* The answers instance A holds for the user of the race scenario.
Recorded ==
  LET quiz == Quizzes["A"][QuizIdOf(1)]
  IN Len(quiz.Participants[UserIdOf(1)].Answers)

NextRace ==
  \/ \E t \in TaskIds :
       \/ \E questionID \in QuestionInputs, answer \in ChoiceInputs :
            /\ Recorded < MaxRecorded
            /\ SubmitBegin(t, "A", QuizIdOf(1), UserIdOf(1), questionID, answer)
       \/ SubmitCheck(t)
       \/ SubmitAdd(t)
       \/ MarshalKeys(t)
       \/ MarshalScore(t)
       \/ MarshalAnswers(t)
       \/ MarshalTail(t)
       \/ SaveQuizSet(t)
       \/ SubmitSaveUser(t)
       \/ SubmitBroadcastScore(t)
       \/ SubmitBroadcastLeaderboard(t)
  \/ GetQuizCall("B", QuizIdOf(1))

SpecRace == InitRace /\ [][NextRace]_vars

(***************************************************************************)
(* The ordering scenario: an instance running without Redis, a quiz with    *)
(* one participant whose websocket client is registered, and concurrent     *)
(* SubmitAnswer calls for that participant.  broadcastLeaderboard computes  *)
(* the leaderboard (under the quiz's read lock) and then enqueues it (under *)
(* the registry's lock); the two are separate steps.                        *)
(***************************************************************************)
InitOrder ==
  /\ LET quiz == AddParticipant(NewQuiz(QuizIdOf(1)), NewUser(UserIdOf(1)))
     IN Quizzes = [i \in Instances |-> IF i = "A" THEN Put(<< >>, quiz.ID, quiz) ELSE << >>]
  /\ redisQuiz = << >>
  /\ redisUser = << >>
  /\ redisActive = {}
  /\ Clients = [i \in Instances |-> IF i = "A" THEN {1} ELSE {}]
  /\ client = [c \in ClientIds |->
                 IF c = 1 THEN [NoClient EXCEPT !.Hub = "A", !.QuizID = QuizIdOf(1),
                                                !.UserID = UserIdOf(1), !.reading = TRUE]
                 ELSE NoClient]
  /\ rclient = [i \in Instances |-> FALSE]
  /\ redisDown = FALSE
  /\ history = {}
  /\ inbox = [i \in Instances |-> << >>]
  /\ nPublished = 0
  /\ uuidQuiz = 1
  /\ uuidUser = 1
  /\ clock = 0
  /\ crashed = {}
  /\ ret = Ret("", "", "", "", "", NoValue)
  /\ task = [t \in TaskIds |-> Idle]

\* broadcastLeaderboard, lines 365-369: qs.GetLeaderboard(quizID).
LeaderboardCompute(t) ==
  /\ task[t].pc = "leaderboard"
  /\ \E order \in MapOrders(DOMAIN TaskQuiz(t).Participants) :
       task' = [task EXCEPT ![t].pc = "leaderboard_send",
                            ![t].snap = GetLeaderboard(TaskQuiz(t), order)]
  /\ UNCHANGED << Quizzes, Clients, client, rclient, redisDown, history, redisQuiz, redisUser,
                  redisActive, inbox, nPublished, uuidQuiz, uuidUser, clock, crashed, ret >>

\* broadcastLeaderboard, lines 371-374: the broadcast of the computed
\* leaderboard, and the return of SubmitAnswer.
LeaderboardSend(t) ==
  /\ task[t].pc = "leaderboard_send"
  /\ SetHub(broadcastToQuiz(HubState, task[t].inst, task[t].quiz,
              [Type |-> "leaderboard_update", Payload |-> task[t].snap]))
  /\ task' = [task EXCEPT ![t] = Idle]
  /\ ret' = Ret("SubmitAnswer", task[t].inst, task[t].quiz, task[t].user, "",
                task[t].question)
  /\ UNCHANGED << Quizzes, rclient, redisDown, history, redisQuiz, redisUser, redisActive,
                  uuidQuiz, uuidUser, clock >>

NextOrder ==
  \/ \E t \in TaskIds :
       \/ \E questionID \in QuestionInputs, answer \in ChoiceInputs :
            /\ Recorded < MaxRecorded
            /\ SubmitBegin(t, "A", QuizIdOf(1), UserIdOf(1), questionID, answer)
       \/ SubmitCheck(t)
       \/ SubmitAdd(t)
       \/ MarshalKeys(t)
       \/ SubmitSaveUser(t)
       \/ SubmitBroadcastScore(t)
       \/ LeaderboardCompute(t)
       \/ LeaderboardSend(t)
  \/ \E c \in ClientIds : WritePump(c)

SpecOrder == InitOrder /\ [][NextOrder]_vars

(***************************************************************************)
(* The snapshot scenario: an instance running without Redis, a quiz with    *)
(* two participants, SubmitAnswer calls for them and GetLeaderboard calls   *)
(* running concurrently.  Quiz.GetLeaderboard holds the quiz's read lock    *)
(* and reads user.Score of one participant after the other; AddAnswer holds *)
(* the user's lock only, so it runs between two of those reads.             *)
(***************************************************************************)
InitSnapshot ==
  /\ LET quiz == AddParticipant(AddParticipant(NewQuiz(QuizIdOf(1)), NewUser(UserIdOf(1))),
                                NewUser(UserIdOf(2)))
     IN /\ Quizzes = [i \in Instances |-> IF i = "A" THEN Put(<< >>, quiz.ID, quiz) ELSE << >>]
        /\ history = {ScoreTable(quiz)}
  /\ redisQuiz = << >>
  /\ redisUser = << >>
  /\ redisActive = {}
  /\ Clients = [i \in Instances |-> {}]
  /\ client = [c \in ClientIds |-> NoClient]
  /\ rclient = [i \in Instances |-> FALSE]
  /\ redisDown = FALSE
  /\ inbox = [i \in Instances |-> << >>]
  /\ nPublished = 0
  /\ uuidQuiz = 1
  /\ uuidUser = 2
  /\ clock = 0
  /\ crashed = {}
  /\ ret = Ret("", "", "", "", "", NoValue)
  /\ task = [t \in TaskIds |-> Idle]

\* QuizService.GetLeaderboard, lines 217-220, and the start of the range loop
\* of Quiz.GetLeaderboard over the Participants map.
LeaderboardBegin(t, i, quizID) ==
  /\ task[t].pc = "idle"
  /\ i \notin crashed
  /\ LET g == GetQuiz(Quizzes, i, quizID)
     IN /\ Quizzes' = g.cache
        /\ IF g.found
           THEN /\ \E order \in MapOrders(DOMAIN g.cache[i][quizID].Participants) :
                     task' = [task EXCEPT ![t] =
                                [Idle EXCEPT !.pc = "entries", !.inst = i, !.quiz = quizID,
                                             !.keys = order]]
                /\ UNCHANGED ret
           ELSE /\ ret' = Ret("GetLeaderboard", i, quizID, "", "NotFound", NoValue)
                /\ UNCHANGED task
  /\ UNCHANGED << Clients, client, rclient, redisDown, history, redisQuiz, redisUser,
                  redisActive, inbox, nPublished, uuidQuiz, uuidUser, clock, crashed >>

\* Quiz.GetLeaderboard, lines 473-479: one round of the loop, the entry of a
\* participant appended with the Score read now.
LeaderboardEntry(t) ==
  /\ task[t].pc = "entries"
  /\ task[t].keys # << >>
  /\ LET u == Head(task[t].keys)
     IN task' = [task EXCEPT
          ![t].keys = Tail(@),
          ![t].snap = Append(@, [UserID |-> u, Score |-> TaskQuiz(t).Participants[u].Score])]
  /\ UNCHANGED << Quizzes, Clients, client, rclient, redisDown, history, redisQuiz, redisUser,
                  redisActive, inbox, nPublished, uuidQuiz, uuidUser, clock, crashed, ret >>

\* Quiz.GetLeaderboard, lines 481-495: the sort, the positions, the return.
LeaderboardReturn(t) ==
  /\ task[t].pc = "entries"
  /\ task[t].keys = << >>
  /\ LET sorted == SortOuter(task[t].snap, 1)
     IN ret' = Ret("GetLeaderboard", task[t].inst, task[t].quiz, "", "",
                   [k \in 1..Len(sorted) |->
                      [UserID |-> sorted[k].UserID, Score |-> sorted[k].Score,
                       Position |-> k]])
  /\ task' = [task EXCEPT ![t] = Idle]
  /\ UNCHANGED << Quizzes, Clients, client, rclient, redisDown, history, redisQuiz, redisUser,
                  redisActive, inbox, nPublished, uuidQuiz, uuidUser, clock, crashed >>

NextSnapshot ==
  \E t \in TaskIds :
    \/ \E userID \in UserIdInputs, questionID \in RelayQuestionInputs, answer \in 0..MaxChoice :
         SubmitBegin(t, "A", QuizIdOf(1), userID, questionID, answer)
    \/ SubmitCheck(t)
    \/ SubmitAdd(t)
    \/ MarshalKeys(t)
    \/ SubmitSaveUser(t)
    \/ SubmitBroadcastScore(t)
    \/ SubmitBroadcastLeaderboard(t)
    \/ LeaderboardBegin(t, "A", QuizIdOf(1))
    \/ LeaderboardEntry(t)
    \/ LeaderboardReturn(t)

SpecSnapshot == InitSnapshot /\ [][NextSnapshot]_vars

(***************************************************************************)
(* The relay scenario: a quiz created, joined and answered through instance *)
(* A, websocket clients of instance B joining it, and the subscriber loops  *)
(* of both instances.  The loops and the write pumps are goroutines that    *)
(* run for as long as their instance does, hence the fairness conditions.   *)
(***************************************************************************)
NextRelay ==
  \/ uuidQuiz < MaxQuizzes /\ CreateQuiz("A")
  \/ Cardinality({c \in ClientIds : client[c].Hub # ""}) < RelayClients /\ HandleWebSocket("B")
  \/ \E quizID \in QuizIdInputs :
       \/ uuidUser < MaxUsers /\ JoinQuiz("A", quizID)
       \/ \E c \in ClientIds : uuidUser < MaxUsers /\ handleJoinQuiz(c, quizID)
       \/ \E userID \in UserIdInputs, questionID \in RelayQuestionInputs,
             answer \in 0..MaxChoice :
            SubmitAnswer("A", quizID, userID, questionID, answer)
  \/ \E c \in ClientIds : WritePump(c)
  \/ ExternalPublish
  \/ \E i \in Instances : RelayReceive(i)

SpecRelay ==
  /\ Init
  /\ [][NextRelay]_vars
  /\ \A i \in Instances : WF_vars(RelayReceive(i))
  /\ \A c \in ClientIds : WF_vars(WritePump(c))

(***************************************************************************)
(* The unregistration scenario: EndQuiz served by concurrent goroutines,    *)
(* the two passes of its broadcast as separate steps (the first under the   *)
(* read lock of the registry, the second under its write lock), while       *)
(* clients connect, join, are written to and disconnect.  The steps of      *)
(* EndQuiz before the broadcast touch no client and are one step.           *)
(***************************************************************************)
\* EndQuiz, lines 271-284: GetQuiz, the status change, SaveQuiz.
EndQuizBegin(t, i, quizID) ==
  /\ task[t].pc = "idle"
  /\ i \notin crashed
  /\ LET g == GetQuiz(Quizzes, i, quizID)
     IN IF ~g.found
        THEN /\ Quizzes' = g.cache
             /\ ret' = Ret("EndQuiz", i, quizID, "", "NotFound", NoValue)
             /\ UNCHANGED << redisQuiz, redisActive, clock, task >>
        ELSE LET now == clock + 1
                 quiz == [g.cache[i][quizID] EXCEPT !.Status = QuizStatusEnded,
                                                    !.EndedAt = now]
             IN /\ clock' = now
                /\ Quizzes' = [g.cache EXCEPT ![i][quizID] = quiz]
                /\ redisQuiz' = SaveQuizKey(redisQuiz, i, quiz)
                /\ redisActive' = SaveQuizActive(redisActive, i, quiz)
                /\ task' = [task EXCEPT ![t] =
                     [Idle EXCEPT !.pc = "fanout", !.inst = i, !.quiz = quizID,
                                  !.record = [Type |-> "quiz_ended", Payload |-> now]]]
                /\ UNCHANGED ret
  /\ UNCHANGED << Clients, client, rclient, redisDown, history, redisUser, inbox,
                  nPublished, uuidQuiz, uuidUser, crashed >>

BroadcastFanOutBlocking(t) ==
  /\ task[t].pc = "fanout"
  /\ LET targets == BroadcastTargets(HubState, task[t].inst, task[t].quiz)
     IN /\ \A c \in targets : HasRoom(client[c])
        /\ client' = [c \in ClientIds |->
                        IF c \in targets
                        THEN [client[c] EXCEPT !.Send = Append(@, task[t].record)]
                        ELSE client[c]]
        /\ task' = [task EXCEPT ![t].pc = "remove", ![t].marked = {}]
  /\ UNCHANGED << Quizzes, Clients, rclient, redisDown, history, redisQuiz, redisUser,
                  redisActive, inbox, nPublished, uuidQuiz, uuidUser, clock, crashed, ret >>

\* broadcastToQuiz, lines 329-341: the fan-out under the read lock.
BroadcastFanOut(t) ==
  /\ task[t].pc = "fanout"
  /\ LET targets == BroadcastTargets(HubState, task[t].inst, task[t].quiz)
         clientsToRemove == {c \in targets : ~HasRoom(client[c])}
     IN /\ client' = [c \in ClientIds |->
                        IF c \in targets \ clientsToRemove
                        THEN [client[c] EXCEPT !.Send = Append(@, task[t].record)]
                        ELSE client[c]]
        /\ task' = [task EXCEPT ![t].pc = "remove", ![t].marked = clientsToRemove]
  /\ UNCHANGED << Quizzes, Clients, rclient, redisDown, history, redisQuiz, redisUser,
                  redisActive, inbox, nPublished, uuidQuiz, uuidUser, clock, crashed, ret >>

\* broadcastToQuiz, lines 344-354: the removal pass under the write lock.
BroadcastRemoveStep(t) ==
  /\ task[t].pc = "remove"
  /\ SetHub(IF task[t].marked # {}
            THEN BroadcastRemove(HubState, task[t].inst, task[t].marked)
            ELSE HubState)
  /\ task' = [task EXCEPT ![t].pc = "publish"]
  /\ UNCHANGED << Quizzes, rclient, redisDown, history, redisQuiz, redisUser, redisActive,
                  uuidQuiz, uuidUser, clock, ret >>

\* broadcastToQuiz, lines 357-360, and the return of EndQuiz.
BroadcastPublish(t) ==
  /\ task[t].pc = "publish"
  /\ SetHub(PublishMessage(HubState, task[t].inst, Channel(task[t].quiz), task[t].record))
  /\ task' = [task EXCEPT ![t] = Idle]
  /\ ret' = Ret("EndQuiz", task[t].inst, task[t].quiz, "", "", NoValue)
  /\ UNCHANGED << Quizzes, rclient, redisDown, history, redisQuiz, redisUser, redisActive,
                  uuidQuiz, uuidUser, clock >>

InitClose ==
  /\ Quizzes = [i \in Instances |-> << >>]
  /\ Clients = [i \in Instances |-> {}]
  /\ client = [c \in ClientIds |-> NoClient]
  /\ rclient = [i \in Instances |-> TRUE]
  /\ redisDown = FALSE
  /\ history = {}
  /\ redisQuiz = << >>
  /\ redisUser = << >>
  /\ redisActive = {}
  /\ inbox = [i \in Instances |-> << >>]
  /\ nPublished = 0
  /\ uuidQuiz = 0
  /\ uuidUser = 0
  /\ clock = 0
  /\ crashed = {}
  /\ ret = Ret("", "", "", "", "", NoValue)
  /\ task = [t \in TaskIds |-> Idle]

NextClose ==
  \/ uuidQuiz < MaxQuizzes /\ CreateQuiz("A")
  \/ HandleWebSocket("A")
  \/ \E quizID \in QuizIdInputs :
       \/ \E c \in ClientIds : uuidUser < MaxUsers /\ handleJoinQuiz(c, quizID)
       \/ \E t \in TaskIds : clock < CloseClock /\ EndQuizBegin(t, "A", quizID)
  \/ \E t \in TaskIds : BroadcastFanOut(t) \/ BroadcastRemoveStep(t) \/ BroadcastPublish(t)
  \/ \E c \in ClientIds : ReadPumpExit(c) \/ WritePump(c)

SpecClose == InitClose /\ [][NextClose]_vars

\* Broadcasts to clients that stay connected, with the goroutine that runs a
\* broadcast scheduled fairly; nothing is assumed about the write pumps,
\* which may never read.
NextStalled ==
  \/ uuidQuiz < MaxQuizzes /\ CreateQuiz("A")
  \/ Cardinality({c \in ClientIds : client[c].Hub # ""}) < RelayClients /\ HandleWebSocket("A")
  \/ \E quizID \in QuizIdInputs :
       \/ \E c \in ClientIds : uuidUser < MaxUsers /\ handleJoinQuiz(c, quizID)
       \/ \E t \in TaskIds : clock < CloseClock /\ EndQuizBegin(t, "A", quizID)
  \/ \E t \in TaskIds : BroadcastFanOut(t) \/ BroadcastRemoveStep(t) \/ BroadcastPublish(t)
  \/ \E c \in ClientIds : WritePump(c)

SpecStalled ==
  /\ InitClose
  /\ [][NextStalled]_vars
  /\ \A t \in TaskIds : /\ WF_vars(BroadcastFanOut(t))
                        /\ WF_vars(BroadcastRemoveStep(t))
                        /\ WF_vars(BroadcastPublish(t))

(***************************************************************************)
(* The binding scenario: websocket clients of one instance sending          *)
(* join_quiz, submit_answer, start_quiz and end_quiz messages in any order, *)
(* before and after the quiz they name exists.                              *)
(***************************************************************************)
NextBinding ==
  \/ uuidQuiz < MaxQuizzes /\ CreateQuiz("A")
  \/ Cardinality({c \in ClientIds : client[c].Hub # ""}) < BindingClients /\ HandleWebSocket("A")
  \/ \E c \in ClientIds :
       \/ handleJoinQuizMissing(c)
       \/ \E quizID \in QuizIdInputs :
            \/ uuidUser < BindingUsers /\ handleJoinQuiz(c, quizID)
            \/ clock < MaxClock /\ handleStartQuiz(c, quizID)
            \/ clock < MaxClock /\ handleEndQuiz(c, quizID)
       \/ \E questionID \in RelayQuestionInputs, answer \in 0..MaxChoice :
            handleSubmitAnswer(c, questionID, answer)
       \/ WritePump(c)

SpecBinding == Init /\ [][NextBinding]_vars

(***************************************************************************)
(* The dispatch scenario: the binding scenario with messages of unknown     *)
(* type among those the clients send.                                       *)
(***************************************************************************)
NextDispatch ==
  \/ NextBinding
  \/ \E c \in ClientIds : handleUnknownType(c)

SpecDispatch == Init /\ [][NextDispatch]_vars

(***************************************************************************)
(* The shared-store scenario: two instances with Redis available serving    *)
(* the store requests for the same quiz, each handler as one step.          *)
(***************************************************************************)
NextShared ==
  \/ uuidQuiz < MaxQuizzes /\ CreateQuiz("A")
  \/ \E i \in Instances, quizID \in QuizIdInputs :
       \/ uuidUser < SharedUsers /\ JoinQuiz(i, quizID)
       \/ clock < MaxClock /\ StartQuiz(i, quizID)
       \/ clock < MaxClock /\ EndQuiz(i, quizID)
       \/ \E userID \in UserIdInputs, questionID \in RelayQuestionInputs,
             answer \in 0..MaxChoice :
            SubmitAnswer(i, quizID, userID, questionID, answer)

SpecShared == Init /\ [][NextShared]_vars

(***************************************************************************)
(* The late-write scenario: one instance with Redis available; JoinQuiz in  *)
(* two steps, the lookup and AddParticipant on the *Quiz it got, then the   *)
(* writes to Redis and the broadcasts, while DeleteQuiz and the other       *)
(* handlers are served in between.                                          *)
(***************************************************************************)
\* JoinQuiz, lines 94-108: GetQuiz, the new user, AddParticipant.
JoinQuizBegin(t, i, quizID) ==
  /\ task[t].pc = "idle"
  /\ i \notin crashed
  /\ LET g == GetQuiz(Quizzes, i, quizID)
     IN IF ~g.found
        THEN /\ Quizzes' = g.cache
             /\ ret' = Ret("JoinQuiz", i, quizID, "", "NotFound", NoValue)
             /\ UNCHANGED << uuidUser, task >>
        ELSE LET user == NewUser(UserIdOf(uuidUser + 1))
                 quiz == AddParticipant(g.cache[i][quizID], user)
             IN /\ uuidUser' = uuidUser + 1
                /\ Quizzes' = [g.cache EXCEPT ![i][quizID] = quiz]
                /\ task' = [task EXCEPT ![t] =
                     [Idle EXCEPT !.pc = "joinsave", !.inst = i, !.quiz = quizID,
                                  !.user = user.ID, !.record = quiz]]
                /\ UNCHANGED ret
  /\ UNCHANGED << Clients, client, rclient, redisDown, history, redisQuiz, redisUser,
                  redisActive, inbox, nPublished, uuidQuiz, clock, crashed >>

\* JoinQuiz, lines 110-134: SaveQuiz and SaveUser on the *Quiz and *User the
\* goroutine holds, the two broadcasts, the return.  The *Quiz is the one in
\* the registry unless the id was deleted from it in the meantime.
JoinQuizSave(t) ==
  /\ task[t].pc = "joinsave"
  /\ LET i == task[t].inst
         quizID == task[t].quiz
         quiz == IF quizID \in DOMAIN Quizzes[i] THEN Quizzes[i][quizID] ELSE task[t].record
         user == quiz.Participants[task[t].user]
         h1 == broadcastToQuiz(HubState, i, quizID,
                               [Type |-> "user_joined", Payload |-> user.ID])
     IN \E order \in MapOrders(DOMAIN quiz.Participants) :
          /\ redisQuiz' = SaveQuizKey(redisQuiz, i, quiz)
          /\ redisActive' = SaveQuizActive(redisActive, i, quiz)
          /\ redisUser' = SaveUser(redisUser, i, user)
          /\ SetHub(broadcastLeaderboard(h1, i, quiz, order))
          /\ ret' = Ret("JoinQuiz", i, quizID, user.ID, "", NoValue)
  /\ task' = [task EXCEPT ![t] = Idle]
  /\ UNCHANGED << Quizzes, rclient, redisDown, history, uuidQuiz, uuidUser, clock >>

NextLate ==
  \/ uuidQuiz < MaxQuizzes /\ CreateQuiz("A")
  \/ Cardinality({c \in ClientIds : client[c].Hub # ""}) < RelayClients /\ HandleWebSocket("A")
  \/ \E quizID \in QuizIdInputs :
       \/ uuidUser < LateUsers /\ JoinQuizBegin(1, "A", quizID)
       \/ \E c \in ClientIds : uuidUser < LateUsers /\ handleJoinQuiz(c, quizID)
       \/ DeleteQuiz("A", quizID)
       \/ GetQuizCall("A", quizID)
       \/ clock < MaxClock /\ StartQuiz("A", quizID)
       \/ clock < MaxClock /\ EndQuiz("A", quizID)
  \/ JoinQuizSave(1)
  \/ \E c \in ClientIds : WritePump(c)

SpecLate == InitClose /\ [][NextLate]_vars

(***************************************************************************)
(* The disconnection scenario: the exit of readPump in its two steps, the   *)
(* failed read that leaves the loop and the deferred UnregisterClient,      *)
(* while EndQuiz broadcasts to the clients of the quiz.  The goroutine of   *)
(* readPump is scheduled fairly; UnregisterClient waits only for the lock   *)
(* of the registry, which no holder keeps across a blocking operation.      *)
(***************************************************************************)
\* readPump, lines 76-83: ReadMessage returns an error (the peer closed the
\* connection, the read deadline passed, the frame was too large) and the
\* loop is left.
ReadFails(c) ==
  /\ client[c].reading
  /\ client[c].Hub \notin crashed
  /\ client' = [client EXCEPT ![c].reading = FALSE]
  /\ ret' = Ret("ReadMessage", client[c].Hub, "", "", "closed", c)
  /\ UNCHANGED << Quizzes, Clients, rclient, redisDown, history, redisQuiz, redisUser,
                  redisActive, inbox, nPublished, uuidQuiz, uuidUser, clock, crashed, task >>

\* readPump, lines 64-67: the deferred UnregisterClient.  When a broadcast
\* has removed the client in the meantime the call finds it absent and
\* changes nothing.
ReadPumpDeferred(c) ==
  /\ client[c].Hub # ""
  /\ ~client[c].reading
  /\ client[c].Hub \notin crashed
  /\ c \in Clients[client[c].Hub]
  /\ SetHub(UnregisterClient(HubState, client[c].Hub, c))
  /\ ret' = Ret("readPump", client[c].Hub, "", "", "closed", c)
  /\ UNCHANGED << Quizzes, rclient, redisDown, history, redisQuiz, redisUser, redisActive,
                  uuidQuiz, uuidUser, clock, task >>

NextDisconnect ==
  \/ uuidQuiz < MaxQuizzes /\ CreateQuiz("A")
  \/ HandleWebSocket("A")
  \/ \E quizID \in QuizIdInputs :
       \/ \E c \in ClientIds : uuidUser < MaxUsers /\ handleJoinQuiz(c, quizID)
       \/ \E t \in 1..DisconnectTasks : clock < CloseClock /\ EndQuizBegin(t, "A", quizID)
  \/ \E t \in TaskIds : BroadcastFanOut(t) \/ BroadcastRemoveStep(t) \/ BroadcastPublish(t)
  \/ \E c \in ClientIds : ReadFails(c) \/ ReadPumpDeferred(c) \/ WritePump(c)

SpecDisconnect ==
  /\ InitClose
  /\ [][NextDisconnect]_vars
  /\ \A c \in ClientIds : WF_vars(ReadPumpDeferred(c))

(***************************************************************************)
(* The degraded scenario: one instance that started with Redis available,   *)
(* and a Redis server that stops and resumes executing commands while the   *)
(* instance serves requests.  While it is stopped every command of a        *)
(* handler fails.                                                           *)
(***************************************************************************)
\* The Redis server becomes unreachable.
RedisFails ==
  /\ ~redisDown
  /\ redisDown' = TRUE
  /\ ret' = Ret("RedisFails", "", "", "", "", NoValue)
  /\ UNCHANGED << Quizzes, Clients, client, rclient, history, redisQuiz, redisUser,
                  redisActive, inbox, nPublished, uuidQuiz, uuidUser, clock, crashed, task >>

\* The Redis server is reachable again.
RedisRecovers ==
  /\ redisDown
  /\ redisDown' = FALSE
  /\ ret' = Ret("RedisRecovers", "", "", "", "", NoValue)
  /\ UNCHANGED << Quizzes, Clients, client, rclient, history, redisQuiz, redisUser,
                  redisActive, inbox, nPublished, uuidQuiz, uuidUser, clock, crashed, task >>

DegradedQuizIdInputs == {QuizIdOf(n) : n \in 1..DegradedQuizzes}

NextDegraded ==
  \/ RedisFails
  \/ RedisRecovers
  \/ uuidQuiz < DegradedQuizzes /\ CreateQuiz("A")
  \/ Cardinality({c \in ClientIds : client[c].Hub # ""}) < RelayClients /\ HandleWebSocket("A")
  \/ \E quizID \in DegradedQuizIdInputs :
       \/ \E c \in ClientIds : uuidUser < DegradedUsers /\ handleJoinQuiz(c, quizID)
       \/ clock < MaxClock /\ StartQuiz("A", quizID)
       \/ clock < MaxClock /\ EndQuiz("A", quizID)
       \/ \E userID \in UserIdInputs, questionID \in RelayQuestionInputs,
             answer \in 0..MaxChoice :
            SubmitAnswer("A", quizID, userID, questionID, answer)
  \/ \E c \in ClientIds : WritePump(c)

SpecDegraded == Init /\ [][NextDegraded]_vars

(***************************************************************************)
(* The single-instance scenario: Redis was unreachable when instance A      *)
(* started (NewRedisService left its client nil) and reachable when         *)
(* instance B started.  A serves store and websocket requests; B creates    *)
(* quizzes and runs its subscriber loop.                                    *)
(***************************************************************************)
InitLocal ==
  /\ Quizzes = [i \in Instances |-> << >>]
  /\ Clients = [i \in Instances |-> {}]
  /\ client = [c \in ClientIds |-> NoClient]
  /\ rclient = [i \in Instances |-> i = "B"]
  /\ redisDown = FALSE
  /\ history = {}
  /\ redisQuiz = << >>
  /\ redisUser = << >>
  /\ redisActive = {}
  /\ inbox = [i \in Instances |-> << >>]
  /\ nPublished = 0
  /\ uuidQuiz = 0
  /\ uuidUser = 0
  /\ clock = 0
  /\ crashed = {}
  /\ ret = Ret("", "", "", "", "", NoValue)
  /\ task = [t \in TaskIds |-> Idle]

LocalQuizIdInputs == {QuizIdOf(n) : n \in 1..LocalQuizzes}

NextLocal ==
  \/ uuidQuiz < LocalQuizzes /\ \E i \in Instances : CreateQuiz(i)
  \/ Cardinality({c \in ClientIds : client[c].Hub # ""}) < RelayClients /\ HandleWebSocket("A")
  \/ \E quizID \in LocalQuizIdInputs :
       \/ GetQuizCall("A", quizID)
       \/ GetLeaderboardCall("A", quizID)
       \/ uuidUser < LocalUsers /\ JoinQuiz("A", quizID)
       \/ \E c \in ClientIds : uuidUser < LocalUsers /\ handleJoinQuiz(c, quizID)
       \/ clock < MaxClock /\ StartQuiz("A", quizID)
       \/ clock < MaxClock /\ EndQuiz("A", quizID)
       \/ \E userID \in UserIdInputs, questionID \in RelayQuestionInputs,
             answer \in 0..MaxChoice :
            SubmitAnswer("A", quizID, userID, questionID, answer)
  \/ \E c \in ClientIds : WritePump(c)
  \/ ExternalPublish
  \/ \E i \in Instances : RelayReceive(i)

SpecLocal == InitLocal /\ [][NextLocal]_vars

(***************************************************************************)
(* The listing scenario: instance A started without Redis and instance B    *)
(* with it, as in the single-instance scenario; both create, delete and     *)
(* list quizzes.                                                            *)
(***************************************************************************)
ListQuizIdInputs == {QuizIdOf(n) : n \in 1..ListQuizzes}

NextList ==
  \/ uuidQuiz < ListQuizzes /\ \E i \in Instances : CreateQuiz(i)
  \/ \E i \in Instances :
       \/ GetActiveQuizzesCall(i)
       \/ \E quizID \in ListQuizIdInputs :
            \/ DeleteQuiz(i, quizID)
            \/ uuidUser < ListUsers /\ JoinQuiz(i, quizID)
            \/ clock < MaxClock /\ StartQuiz(i, quizID)

SpecList == InitLocal /\ [][NextList]_vars

(***************************************************************************)
(* The deletion scenario: two instances sharing a Redis server that fails   *)
(* and recovers; quizzes are created and joined through A, and read and     *)
(* deleted through either instance, under ids issued or never issued.       *)
(***************************************************************************)
DeleteQuizIdInputs == {QuizIdOf(n) : n \in 1..(DeleteQuizzes + 1)}

NextDelete ==
  \/ RedisFails
  \/ RedisRecovers
  \/ uuidQuiz < DeleteQuizzes /\ CreateQuiz("A")
  \/ \E quizID \in DeleteQuizIdInputs :
       \/ uuidUser < DeleteUsers /\ JoinQuiz("A", quizID)
       \/ \E i \in Instances : GetQuizCall(i, quizID) \/ DeleteQuiz(i, quizID)

SpecDelete == Init /\ [][NextDelete]_vars

(***************************************************************************)
(* The submission scenario: one instance, a quiz that is joined, started    *)
(* and ended, and answers submitted at every stage for known and unknown    *)
(* quizzes, users and questions, with option indexes inside and outside the *)
(* range of the options.                                                    *)
(***************************************************************************)
\* A question id no quiz has.
UnknownQuestion == "q0"

SubmitQuestionInputs == {getSampleQuestions[k].ID : k \in 1..SubmitQuestions} \cup {UnknownQuestion}
SubmitChoiceInputs == (0 - SubmitChoiceBelow)..SubmitChoiceAbove

NextSubmit ==
  \/ uuidQuiz < MaxQuizzes /\ CreateQuiz("A")
  \/ Cardinality({c \in ClientIds : client[c].Hub # ""}) < RelayClients /\ HandleWebSocket("A")
  \/ \E quizID \in QuizIdInputs :
       \/ \E c \in ClientIds : uuidUser < SubmitUsers /\ handleJoinQuiz(c, quizID)
       \/ clock < MaxClock /\ StartQuiz("A", quizID)
       \/ clock < MaxClock /\ EndQuiz("A", quizID)
       \/ \E userID \in UserIdInputs, questionID \in SubmitQuestionInputs,
             answer \in SubmitChoiceInputs :
            SubmitAnswer("A", quizID, userID, questionID, answer)
  \/ \E c \in ClientIds : WritePump(c)

SpecSubmit == Init /\ [][NextSubmit]_vars

(***************************************************************************)
(* The echo scenario: one instance with the relay enabled, originating      *)
(* events for its own websocket clients and running its subscriber loop on *)
(* what the shared topic delivers to it.                                    *)
(***************************************************************************)
NextEcho ==
  \/ uuidQuiz < MaxQuizzes /\ CreateQuiz("A")
  \/ Cardinality({c \in ClientIds : client[c].Hub # ""}) < EchoClients /\ HandleWebSocket("A")
  \/ \E quizID \in QuizIdInputs :
       \/ \E c \in ClientIds : uuidUser < EchoUsers /\ handleJoinQuiz(c, quizID)
       \/ clock < MaxClock /\ StartQuiz("A", quizID)
       \/ clock < MaxClock /\ EndQuiz("A", quizID)
       \/ \E userID \in UserIdInputs, questionID \in RelayQuestionInputs,
             answer \in 0..MaxChoice :
            SubmitAnswer("A", quizID, userID, questionID, answer)
  \/ \E c \in ClientIds : WritePump(c)
  \/ ExternalPublish
  \/ RelayReceive("A")

SpecEcho == Init /\ [][NextEcho]_vars

(***************************************************************************)
(* The synchronisation scenario: the handlers of one instance as the        *)
(* sequences of lock operations and shared-memory accesses they perform on  *)
(* one quiz and its participants, run by concurrent tasks (each HTTP        *)
(* request and each readPump is a goroutine).  Only the locks and the       *)
(* accesses are tracked here, not the values.  A task whose next            *)
(* instruction is an access is performing it; an acquire waits until the    *)
(* lock is free (sync.RWMutex: one writer or any number of readers).        *)
(***************************************************************************)
Global(name) == [name |-> name, id |-> ""]
OfUser(name, userID) == [name |-> name, id |-> userID]

Acquire(lock, mode) == [kind |-> "acquire", on |-> lock, mode |-> mode, skip |-> 0]
Release(lock) == [kind |-> "release", on |-> lock, mode |-> "", skip |-> 0]
Access(loc, mode) == [kind |-> "access", on |-> loc, mode |-> mode, skip |-> 0]
\* A branch of the code that may skip the next n instructions.
Maybe(n) == [kind |-> "maybe", on |-> Global(""), mode |-> "", skip |-> n]

AccessUserIds == [n \in 1..AccessUsers |-> UserIdOf(n)]

RECURSIVE Flatten(_)
Flatten(seqs) == IF seqs = << >> THEN << >> ELSE Head(seqs) \o Flatten(Tail(seqs))

\* QuizService.GetQuiz: the lookup in qs.Quizzes, and on a miss the insert of
\* the quiz loaded from Redis; no lock is taken.
GetQuizAccesses ==
  << Access(Global("qs.Quizzes"), "r"), Maybe(1), Access(Global("qs.Quizzes"), "w") >>

\* json.Marshal(quiz) in RedisService.SaveQuiz: the Participants map, the
\* Score and Answers of each user, the Status; no lock is taken.
MarshalAccesses ==
  << Access(Global("q.Participants"), "r") >>
  \o Flatten([n \in 1..AccessUsers |->
                << Access(OfUser("u.Score", AccessUserIds[n]), "r"),
                   Access(OfUser("u.Answers", AccessUserIds[n]), "r") >>])
  \o << Access(Global("q.Status"), "r") >>

broadcastWithQuizLock ==
  << Acquire(Global("q.mu"), "r"),
     Acquire(Global("qs.Mu"), "r"), Access(Global("qs.Clients"), "r"), Release(Global("qs.Mu")),
     Release(Global("q.mu")) >>

\* QuizService.broadcastToQuiz: the fan-out under qs.Mu.RLock, and the
\* removal under qs.Mu.Lock when a client was marked.
broadcastAccesses ==
  << Acquire(Global("qs.Mu"), "r"), Access(Global("qs.Clients"), "r"), Release(Global("qs.Mu")),
     Maybe(3),
     Acquire(Global("qs.Mu"), "w"), Access(Global("qs.Clients"), "w"), Release(Global("qs.Mu")) >>

\* Quiz.GetLeaderboard after GetQuiz: the loop over Participants reading each
\* user's Score under q.mu.RLock.
leaderboardAccesses ==
  GetQuizAccesses
  \o << Acquire(Global("q.mu"), "r"), Access(Global("q.Participants"), "r") >>
  \o [n \in 1..AccessUsers |-> Access(OfUser("u.Score", AccessUserIds[n]), "r")]
  \o << Release(Global("q.mu")) >>

AccessOps == {"CreateQuiz", "GetQuiz", "DeleteQuiz", "StartQuiz", "EndQuiz", "JoinQuiz",
              "SubmitAnswer", "GetLeaderboard", "RegisterClient", "UnregisterClient"}

\* The instructions of a handler; userID is the participant of SubmitAnswer.
Accesses(op, userID) ==
  CASE op = "CreateQuiz" -> << Access(Global("qs.Quizzes"), "w") >>
    [] op = "GetQuiz" -> GetQuizAccesses
    [] op = "DeleteQuiz" ->
         << Acquire(Global("qs.Mu"), "w"), Access(Global("qs.Quizzes"), "w"),
            Release(Global("qs.Mu")) >>
    [] op = "StartQuiz" ->
         GetQuizAccesses
         \o << Access(Global("q.Status"), "r"), Maybe(1 + Len(MarshalAccesses) + Len(broadcastAccesses)),
               Access(Global("q.Status"), "w") >>
         \o MarshalAccesses \o broadcastAccesses
    [] op = "EndQuiz" ->
         GetQuizAccesses \o << Access(Global("q.Status"), "w") >>
         \o MarshalAccesses \o broadcastAccesses
    [] op = "JoinQuiz" ->
         GetQuizAccesses
         \o << Acquire(Global("q.mu"), "w"), Access(Global("q.Participants"), "w"),
               Release(Global("q.mu")) >>
         \o MarshalAccesses \o broadcastAccesses \o leaderboardAccesses \o broadcastAccesses
    [] op = "SubmitAnswer" ->
         GetQuizAccesses
         \o << Access(Global("q.Participants"), "r"),
               Acquire(OfUser("u.mu", userID), "r"), Access(OfUser("u.Answers", userID), "r"),
               Release(OfUser("u.mu", userID)),
               Maybe(7 + Len(MarshalAccesses) + 2 * Len(broadcastAccesses)
                       + Len(leaderboardAccesses)),
               Acquire(OfUser("u.mu", userID), "w"), Access(OfUser("u.Answers", userID), "w"),
               Access(OfUser("u.Score", userID), "w"), Release(OfUser("u.mu", userID)) >>
         \o MarshalAccesses
         \o << Acquire(OfUser("u.mu", userID), "r"), Access(OfUser("u.Score", userID), "r"),
               Release(OfUser("u.mu", userID)) >>
         \o broadcastAccesses \o leaderboardAccesses \o broadcastAccesses
    [] op = "GetLeaderboard" -> leaderboardAccesses
    [] op \in {"RegisterClient", "UnregisterClient"} ->
         << Acquire(Global("qs.Mu"), "w"), Access(Global("qs.Clients"), "w"),
            Release(Global("qs.Mu")) >>

\* The instruction a task is at, the locks it holds.
Running(t) == task[t].keys # << >>
Instr(t) == Head(task[t].keys)
LocksHeld(t) == task[t].marked

\* sync.RWMutex: Lock waits for every holder, RLock for a writer.
LockFree(t, lock, mode) ==
  \A u \in TaskIds \ {t} :
    \A h \in LocksHeld(u) : h.on = lock => (mode = "r" /\ h.mode = "r")

\* The task goes on to its next instruction, or returns after the last.
Advance(t, rest, locks) ==
  /\ task' = [task EXCEPT ![t] = IF rest = << >> THEN Idle
                                 ELSE [@ EXCEPT !.keys = rest, !.marked = locks]]
  /\ ret' = IF rest = << >> THEN Ret(task[t].pc, task[t].inst, task[t].quiz, task[t].user, "", NoValue)
            ELSE ret
  /\ UNCHANGED << Quizzes, Clients, client, rclient, redisDown, history, redisQuiz, redisUser,
                  redisActive, inbox, nPublished, uuidQuiz, uuidUser, clock, crashed >>

\* A request arrives and a goroutine starts running its handler.
HandlerBegin(t, op, userID) ==
  /\ task[t].pc = "idle"
  /\ task' = [task EXCEPT ![t] = [Idle EXCEPT !.pc = op, !.inst = "A", !.quiz = QuizIdOf(1),
                                              !.user = userID,
                                              !.keys = Accesses(op, userID)]]
  /\ UNCHANGED << Quizzes, Clients, client, rclient, redisDown, history, redisQuiz, redisUser,
                  redisActive, inbox, nPublished, uuidQuiz, uuidUser, clock, crashed, ret >>

\* mu.Lock() / mu.RLock()
LockAcquire(t) ==
  /\ Running(t)
  /\ Instr(t).kind = "acquire"
  /\ LockFree(t, Instr(t).on, Instr(t).mode)
  /\ Advance(t, Tail(task[t].keys),
             LocksHeld(t) \cup {[on |-> Instr(t).on, mode |-> Instr(t).mode]})

\* mu.Unlock() / mu.RUnlock()
LockRelease(t) ==
  /\ Running(t)
  /\ Instr(t).kind = "release"
  /\ Advance(t, Tail(task[t].keys), {h \in LocksHeld(t) : h.on # Instr(t).on})

\* The read or write the task is at completes.
AccessDone(t) ==
  /\ Running(t)
  /\ Instr(t).kind = "access"
  /\ Advance(t, Tail(task[t].keys), LocksHeld(t))

\* A conditional of the handler: the guarded instructions run or are skipped.
BranchTaken(t) ==
  /\ Running(t)
  /\ Instr(t).kind = "maybe"
  /\ \E rest \in {Tail(task[t].keys),
                  SubSeq(task[t].keys, Instr(t).skip + 2, Len(task[t].keys))} :
       Advance(t, rest, LocksHeld(t))

NextAccess ==
  \E t \in TaskIds :
    \/ \E op \in AccessOps, n \in 1..AccessUsers : HandlerBegin(t, op, AccessUserIds[n])
    \/ LockAcquire(t)
    \/ LockRelease(t)
    \/ AccessDone(t)
    \/ BranchTaken(t)

SpecAccess == InitRace /\ [][NextAccess]_vars

(***************************************************************************)
(* Properties                                                              *)
(***************************************************************************)
\* The quiz an instance holds, and a participant of it, before a step.
Held(i, quizID) == quizID \in DOMAIN Quizzes[i]
HeldUser(i, quizID, userID) ==
  Held(i, quizID) /\ userID \in DOMAIN Quizzes[i][quizID].Participants

\* The number of messages of a type in a queue.
CountType(queue, type) == Cardinality({k \in 1..Len(queue) : queue[k].Type = type})

\* The sum of the points of the answers flagged correct.
RECURSIVE SumPoints(_)
SumPoints(answers) ==
  IF answers = << >> THEN 0
  ELSE (IF Head(answers).Correct THEN Head(answers).Points ELSE 0) + SumPoints(Tail(answers))

\* C1: every user of every quiz an instance holds has at most one Answer per
\* question id, whatever the interleaving of the SubmitAnswer calls.
C1_OneAnswerPerQuestion ==
  \A i \in Instances : \A quizID \in DOMAIN Quizzes[i] :
    \A userID \in DOMAIN Quizzes[i][quizID].Participants :
      LET answers == Quizzes[i][quizID].Participants[userID].Answers
      IN \A a, b \in 1..Len(answers) :
           answers[a].QuestionID = answers[b].QuestionID => a = b

\* C2: the score of every user of every quiz an instance holds is the sum of
\* the points of the user's recorded answers that are flagged correct.
C2_ScoreIsSum ==
  \A i \in Instances : \A quizID \in DOMAIN Quizzes[i] :
    \A userID \in DOMAIN Quizzes[i][quizID].Participants :
      Quizzes[i][quizID].Participants[userID].Score
        = SumPoints(Quizzes[i][quizID].Participants[userID].Answers)

\* C3: a SubmitAnswer for a (quiz, user, question) whose answer the serving
\* instance already recorded fails with Conflict and leaves the user's answer
\* list and score as they were.
C3_SecondSubmitConflict ==
  [][(/\ ret'.op = "SubmitAnswer"
      /\ HeldUser(ret'.inst, ret'.quiz, ret'.user)
      /\ \E k \in 1..Len(Quizzes[ret'.inst][ret'.quiz].Participants[ret'.user].Answers) :
           Quizzes[ret'.inst][ret'.quiz].Participants[ret'.user].Answers[k].QuestionID
             = ret'.value)
     => /\ ret'.err = "Conflict"
        /\ Quizzes'[ret'.inst][ret'.quiz].Participants[ret'.user]
             = Quizzes[ret'.inst][ret'.quiz].Participants[ret'.user]]_vars

\* A second submission for an answered question was rejected, the user
\* holding exactly the first answer.
C3_Witness ==
  /\ ret.op = "SubmitAnswer"
  /\ ret.err = "Conflict"
  /\ Len(Quizzes[ret.inst][ret.quiz].Participants[ret.user].Answers) = 1
  /\ Quizzes[ret.inst][ret.quiz].Participants[ret.user].Answers[1].QuestionID = ret.value
  /\ Quizzes[ret.inst][ret.quiz].Participants[ret.user].Score > 0

\* The status changes the data model allows.
LegalStatusStep(before, after) ==
  \/ before = after
  \/ before = QuizStatusWaiting /\ after = QuizStatusActive
  \/ before = QuizStatusActive /\ after = QuizStatusEnded

\* C4: the status of a quiz an instance holds only moves Waiting -> Active ->
\* Ended: no step skips Active or moves backwards.
C4_StatusMonotone ==
  [][\A i \in Instances : \A quizID \in DOMAIN Quizzes[i] :
       quizID \in DOMAIN Quizzes'[i] =>
         LegalStatusStep(Quizzes[i][quizID].Status, Quizzes'[i][quizID].Status)]_vars

\* C5: StartQuiz on a held quiz that is not Waiting fails with InvalidState,
\* changes neither the quiz nor any queue and publishes nothing; on a Waiting
\* quiz it sets Active and adds exactly one quiz_started to the queue of every
\* registered client of the quiz that has room, and publishes it once.
C5_StartQuizGuard ==
  [][(ret'.op = "StartQuiz" /\ Held(ret'.inst, ret'.quiz)) =>
       LET i == ret'.inst
           quizID == ret'.quiz
       IN IF Quizzes[i][quizID].Status # QuizStatusWaiting
          THEN /\ ret'.err = "InvalidState"
               /\ Quizzes'[i][quizID] = Quizzes[i][quizID]
               /\ client' = client
               /\ Clients' = Clients
               /\ nPublished' = nPublished
          ELSE /\ ret'.err = ""
               /\ Quizzes'[i][quizID].Status = QuizStatusActive
               /\ Quizzes'[i][quizID].StartedAt # Quizzes[i][quizID].StartedAt
               /\ nPublished < MaxPublished => nPublished' = nPublished + 1
               /\ \A c \in ClientIds :
                    CountType(client'[c].Send, "quiz_started")
                      = CountType(client[c].Send, "quiz_started")
                        + IF c \in Clients[i] /\ client[c].QuizID = quizID
                             /\ Len(client[c].Send) < SendCap
                          THEN 1 ELSE 0]_vars

\* A StartQuiz was rejected on a quiz whose start had been broadcast to a
\* client that is still registered.
C5_Witness ==
  /\ ret.op = "StartQuiz"
  /\ ret.err = "InvalidState"
  /\ \E c \in Clients[ret.inst] :
       /\ client[c].QuizID = ret.quiz
       /\ CountType(client[c].Send, "quiz_started") = 1

\* The steps of the hub scenario that are one broadcast: a StartQuiz or an
\* EndQuiz that succeeded.
OneBroadcastStep ==
  /\ ret'.op \in {"StartQuiz", "EndQuiz"}
  /\ ret'.err = ""

\* The event such a step broadcasts.
BroadcastEvent ==
  [Type |-> IF ret'.op = "StartQuiz" THEN "quiz_started" ELSE "quiz_ended",
   Payload |-> clock']

\* C6 as stated: the event is enqueued for every registered client of the quiz
\* and for no other client.
C6_BroadcastToEveryBound ==
  [][OneBroadcastStep =>
       \A c \in ClientIds :
         client'[c].Send =
           IF c \in Clients[ret'.inst] /\ client[c].QuizID = ret'.quiz
           THEN Append(client[c].Send, BroadcastEvent)
           ELSE client[c].Send]_vars

\* C6, amended: the event is enqueued for every registered client of the quiz
\* whose queue has room, and for no other client.
C6_BroadcastToBoundWithRoom ==
  [][OneBroadcastStep =>
       \A c \in ClientIds :
         client'[c].Send =
           IF c \in Clients[ret'.inst] /\ client[c].QuizID = ret'.quiz
              /\ Len(client[c].Send) < SendCap
           THEN Append(client[c].Send, BroadcastEvent)
           ELSE client[c].Send]_vars

\* A broadcast reached a client of the quiz while another registered client
\* was bound to another quiz or to none.
C6_Witness ==
  /\ ret.op \in {"StartQuiz", "EndQuiz"}
  /\ ret.err = ""
  /\ \E c, d \in Clients[ret.inst] :
       /\ client[c].QuizID = ret.quiz
       /\ client[c].Send # << >>
       /\ client[c].Send[Len(client[c].Send)].Type \in {"quiz_started", "quiz_ended"}
       /\ client[d].QuizID # ret.quiz
       /\ client[d].QuizID # ""

\* C7: a broadcast that finds the queue of a registered client of the quiz
\* full removes the client and closes its queue without enqueueing, while the
\* other registered clients of the quiz with room get the event; and the queue
\* of a client that is not registered never grows.
C7_FullQueueRemoved ==
  [][/\ OneBroadcastStep =>
          \A c \in Clients[ret'.inst] :
            client[c].QuizID = ret'.quiz =>
              IF Len(client[c].Send) >= SendCap
              THEN /\ c \notin Clients'[ret'.inst]
                   /\ client'[c].Send = client[c].Send
                   /\ client'[c].closes = client[c].closes + 1
              ELSE /\ c \in Clients'[ret'.inst]
                   /\ client'[c].Send = Append(client[c].Send, BroadcastEvent)
     /\ \A c \in ClientIds :
          (client[c].Hub # "" /\ c \notin Clients[client[c].Hub]) =>
            /\ Len(client'[c].Send) <= Len(client[c].Send)
            /\ c \notin Clients'[client[c].Hub]]_vars

\* A broadcast removed a client whose queue was full and reached another
\* client of the same quiz.
C7_Witness ==
  /\ ret.op \in {"StartQuiz", "EndQuiz"}
  /\ ret.err = ""
  /\ \E c, d \in ClientIds :
       /\ client[c].Hub = ret.inst
       /\ c \notin Clients[ret.inst]
       /\ client[c].reading
       /\ client[c].QuizID = ret.quiz
       /\ Len(client[c].Send) = SendCap
       /\ client[c].closes = 1
       /\ d \in Clients[ret.inst]
       /\ client[d].QuizID = ret.quiz
       /\ client[d].Send # << >>
       /\ client[d].Send[Len(client[d].Send)] = [Type |-> "quiz_started", Payload |-> clock]

\* C8: a round of the subscriber loop issues no PUBLISH.
C8_RelayNeverPublishes ==
  [][ret'.op = "startRedisSubscription" => nPublished' = nPublished]_vars

\* Instance A holds an accepted correct answer of the user, and the client is
\* registered on instance B, bound to the quiz, with room in its queue.
AnswerAcceptedOnA(quizID, userID, c) ==
  /\ HeldUser("A", quizID, userID)
  /\ Quizzes["A"][quizID].Participants[userID].Score > 0
  /\ c \in Clients["B"]
  /\ client[c].QuizID = quizID
  /\ HasRoom(client[c])

\* The queue of the client holds a leaderboard_update that shows the user
\* with a score above zero.
LeaderboardEnqueued(userID, c) ==
  \E k \in 1..Len(client[c].Send) :
    /\ client[c].Send[k].Type = "leaderboard_update"
    /\ \E e \in 1..Len(client[c].Send[k].Payload) :
         /\ client[c].Send[k].Payload[e].UserID = userID
         /\ client[c].Send[k].Payload[e].Score > 0

\* C9: once an answer of Alice is accepted on A while a client of B is bound
\* to the quiz, that client eventually has a leaderboard_update enqueued that
\* shows Alice's new score.
C9_UpdateReachesOtherInstance ==
  \A c \in ClientIds :
    AnswerAcceptedOnA(QuizIdOf(1), UserIdOf(1), c) ~> LeaderboardEnqueued(UserIdOf(1), c)

\* C10: GetLeaderboard returns one entry per participant carrying the
\* participant's score, scores non-increasing, positions 1, 2, ..., N.
C10_LeaderboardSorted ==
  (ret.op = "GetLeaderboard" /\ ret.err = "") =>
    LET lb == ret.value
        users == Quizzes[ret.inst][ret.quiz].Participants
    IN /\ Len(lb) = Cardinality(DOMAIN users)
       /\ {lb[k].UserID : k \in 1..Len(lb)} = DOMAIN users
       /\ \A k \in 1..Len(lb) : lb[k].Score = users[lb[k].UserID].Score
       /\ \A k \in 1..Len(lb) : lb[k].Position = k
       /\ \A k \in 1..(Len(lb) - 1) : lb[k].Score >= lb[k + 1].Score

\* A leaderboard of three participants with a tie and a strictly lower score.
C10_Witness ==
  /\ ret.op = "GetLeaderboard"
  /\ ret.err = ""
  /\ Len(ret.value) = 3
  /\ ret.value[1].Score = ret.value[2].Score
  /\ ret.value[2].Score > ret.value[3].Score

\* C11: two GetLeaderboard calls in a row on the same unchanged quiz return
\* the same sequence of entries.
C11_RepeatableLeaderboard ==
  [][(/\ ret.op = "GetLeaderboard" /\ ret.err = ""
      /\ ret'.op = "GetLeaderboard" /\ ret'.err = ""
      /\ ret'.inst = ret.inst /\ ret'.quiz = ret.quiz
      /\ Quizzes' = Quizzes)
     => ret'.value = ret.value]_vars

\* The quiz after: created, joined by Alice (u1) and Bob (u2), started, Alice
\* answered q1 with its correct option 0, Bob answered q1 with another option.
C12_ScenarioState(quiz) ==
  /\ quiz.Status = QuizStatusActive
  /\ DOMAIN quiz.Participants = {UserIdOf(1), UserIdOf(2)}
  /\ Len(quiz.Participants[UserIdOf(1)].Answers) = 1
  /\ quiz.Participants[UserIdOf(1)].Answers[1].QuestionID = "q1"
  /\ quiz.Participants[UserIdOf(1)].Answers[1].Answer = 0
  /\ Len(quiz.Participants[UserIdOf(2)].Answers) = 1
  /\ quiz.Participants[UserIdOf(2)].Answers[1].QuestionID = "q1"
  /\ quiz.Participants[UserIdOf(2)].Answers[1].Answer # 0

\* C12: after create, join Alice, join Bob, start, Alice answers q1 correctly
\* and Bob incorrectly, GetLeaderboard returns [Alice 10 rank 1, Bob 0 rank 2].
C12_ScenarioLeaderboard ==
  (/\ ret.op = "GetLeaderboard" /\ ret.err = ""
   /\ Held(ret.inst, ret.quiz)
   /\ C12_ScenarioState(Quizzes[ret.inst][ret.quiz]))
  => ret.value = << [UserID |-> UserIdOf(1), Score |-> 10, Position |-> 1],
                    [UserID |-> UserIdOf(2), Score |-> 0, Position |-> 2] >>

\* GetLeaderboard was called on the quiz of the scenario.
C12_Witness ==
  /\ ret.op = "GetLeaderboard"
  /\ ret.err = ""
  /\ Held(ret.inst, ret.quiz)
  /\ C12_ScenarioState(Quizzes[ret.inst][ret.quiz])
  /\ Len(ret.value) = 2

\* C13: the queue of a client is closed at most once, a close happens only
\* together with the removal of a registered client from the registry, and a
\* client that is no longer registered is neither closed again nor registered
\* again, whatever the interleaving of Unregister with a broadcast's removal.
C13_ClosedOnce ==
  [][\A c \in ClientIds :
       /\ client'[c].closes <= 1
       /\ client'[c].closes # client[c].closes =>
            /\ client'[c].closes = client[c].closes + 1
            /\ c \in Clients[client[c].Hub]
            /\ c \notin Clients'[client[c].Hub]
       /\ (client[c].Hub # "" /\ c \notin Clients[client[c].Hub]) =>
            /\ client'[c].closes = client[c].closes
            /\ c \notin Clients'[client[c].Hub]
       /\ (client[c].Hub # "" /\ c \in Clients[client[c].Hub]
           /\ c \notin Clients'[client[c].Hub]) =>
            client'[c].closes = 1]_vars

\* A broadcast marked a client whose queue was full, the client disconnected
\* and was unregistered before the removal pass, and the pass has run.
C13_Witness ==
  \E t \in TaskIds : \E c \in task[t].marked :
    /\ task[t].pc = "publish"
    /\ ~client[c].reading
    /\ client[c].closes = 1
    /\ c \notin Clients[task[t].inst]

\* C14: a CreateQuiz whose durable write fails reports a persistence error and
\* the new quiz is in the registry of the instance all the same.
C14_CreateKeptInMemory ==
  [][(ret'.op = "CreateQuiz" /\ ret'.inst \in Instances
      /\ rclient[ret'.inst] /\ redisDown /\ redisDown')
     => /\ ret'.err = "PersistenceError"
        /\ ret'.quiz \in DOMAIN Quizzes'[ret'.inst]]_vars

\* The queue of every registered client of the quiz that had room holds one
\* more event of the type after the step.
LocallyBroadcast(i, quizID, type) ==
  \A c \in Clients[i] :
    (client[c].QuizID = quizID /\ HasRoom(client[c])) =>
      CountType(client'[c].Send, type) = CountType(client[c].Send, type) + 1

\* C15: with the durable writes failing, JoinQuiz, SubmitAnswer, StartQuiz and
\* EndQuiz on a quiz the instance holds succeed whenever they would with the
\* writes working, keep the in-memory change and broadcast their event to
\* the local clients; nothing reaches the store.
C15_WriteFailureAbsorbed ==
  [][(/\ ret'.inst \in Instances
      /\ rclient[ret'.inst] /\ redisDown /\ redisDown'
      /\ Held(ret'.inst, ret'.quiz)) =>
       LET i == ret'.inst
           quizID == ret'.quiz
           before == Quizzes[i][quizID]
           after == Quizzes'[i][quizID]
       IN /\ redisQuiz' = redisQuiz /\ redisUser' = redisUser
          /\ ret'.op \in {"JoinQuiz", "handleJoinQuiz"} =>
               /\ ret'.err = ""
               /\ ret'.user \notin DOMAIN before.Participants
               /\ DOMAIN after.Participants = DOMAIN before.Participants \cup {ret'.user}
               /\ after.Participants[ret'.user].Score = 0
               /\ LocallyBroadcast(i, quizID, "user_joined")
          /\ (/\ ret'.op = "SubmitAnswer"
              /\ ret'.user \in DOMAIN before.Participants
              /\ \A k \in 1..Len(before.Participants[ret'.user].Answers) :
                   before.Participants[ret'.user].Answers[k].QuestionID # ret'.value
              /\ \E k \in 1..Len(getSampleQuestions) : getSampleQuestions[k].ID = ret'.value) =>
               /\ ret'.err = ""
               /\ Len(after.Participants[ret'.user].Answers)
                    = Len(before.Participants[ret'.user].Answers) + 1
               /\ after.Participants[ret'.user].Score
                    = SumPoints(after.Participants[ret'.user].Answers)
               /\ LocallyBroadcast(i, quizID, "score_update")
          /\ (ret'.op = "StartQuiz" /\ before.Status = QuizStatusWaiting) =>
               /\ ret'.err = ""
               /\ after.Status = QuizStatusActive
               /\ LocallyBroadcast(i, quizID, "quiz_started")
          /\ ret'.op = "EndQuiz" =>
               /\ ret'.err = ""
               /\ after.Status = QuizStatusEnded
               /\ LocallyBroadcast(i, quizID, "quiz_ended")]_vars

\* With Redis failing, a correct answer was accepted and scored, its
\* score_update is in the queue of a client of the quiz, and the stored quiz
\* differs from the quiz in memory.
C15_Witness ==
  /\ redisDown
  /\ ret.op = "SubmitAnswer"
  /\ ret.err = ""
  /\ Quizzes[ret.inst][ret.quiz].Participants[ret.user].Score > 0
  /\ ret.quiz \in DOMAIN redisQuiz
  /\ redisQuiz[ret.quiz] # Quizzes[ret.inst][ret.quiz]
  /\ \E c \in Clients[ret.inst] :
       /\ client[c].QuizID = ret.quiz
       /\ CountType(client[c].Send, "score_update") = 1

\* The scores an event carries: user id -> score.
EventScores(m) ==
  IF m.Type = "score_update" THEN {<< m.Payload.UserID, m.Payload.Score >>}
  ELSE IF m.Type = "leaderboard_update"
  THEN {<< m.Payload[k].UserID, m.Payload[k].Score >> : k \in 1..Len(m.Payload)}
  ELSE {}

\* C16: in the queue of a client, an event never follows one computed from a
\* newer state of the quiz: scores only grow, so no score an event carries is
\* lower than the score an earlier event of the same type carries for the user.
C16_EventsInMutationOrder ==
  \A c \in ClientIds :
    \A k, l \in 1..Len(client[c].Send) :
      (k < l /\ client[c].Send[k].Type = client[c].Send[l].Type) =>
        \A older \in EventScores(client[c].Send[k]), newer \in EventScores(client[c].Send[l]) :
          older[1] = newer[1] => older[2] <= newer[2]

\* C17: an instance that found Redis unavailable at startup never receives
\* from a subscription and never publishes or stores; create, get, join,
\* submit answer, start, end and get leaderboard work on its in-memory
\* quizzes, and the events reach its local clients.
C17_SingleInstanceMode ==
  [][/\ inbox'["A"] = << >>
     /\ (ret'.inst = "A" /\ ~rclient["A"]) =>
          LET quizID == ret'.quiz
              held == Held("A", quizID)
          IN /\ ret'.op # "startRedisSubscription"
             /\ nPublished' = nPublished /\ inbox' = inbox
             /\ redisQuiz' = redisQuiz /\ redisUser' = redisUser
             /\ redisActive' = redisActive
             /\ ret'.op = "CreateQuiz" => ret'.err = "" /\ quizID \in DOMAIN Quizzes'["A"]
             /\ ret'.op \in {"GetQuiz", "GetLeaderboard"} =>
                  /\ (ret'.err = "") = held
                  /\ Quizzes' = Quizzes
                  /\ (held /\ ret'.op = "GetQuiz") => ret'.value = Quizzes["A"][quizID]
             /\ ret'.op \in {"JoinQuiz", "handleJoinQuiz"} =>
                  /\ (ret'.err = "") = held
                  /\ held => /\ ret'.user \in DOMAIN Quizzes'["A"][quizID].Participants
                             /\ LocallyBroadcast("A", quizID, "user_joined")
             /\ (/\ ret'.op = "SubmitAnswer" /\ held
                 /\ ret'.user \in DOMAIN Quizzes["A"][quizID].Participants
                 /\ ~HasAnswered(Quizzes["A"][quizID].Participants[ret'.user], ret'.value)
                 /\ FindQuestion(ret'.value) # << >>) =>
                  /\ ret'.err = ""
                  /\ HasAnswered(Quizzes'["A"][quizID].Participants[ret'.user], ret'.value)
                  /\ LocallyBroadcast("A", quizID, "score_update")
             /\ (ret'.op = "StartQuiz" /\ held
                 /\ Quizzes["A"][quizID].Status = QuizStatusWaiting) =>
                  /\ ret'.err = ""
                  /\ Quizzes'["A"][quizID].Status = QuizStatusActive
                  /\ LocallyBroadcast("A", quizID, "quiz_started")
             /\ (ret'.op = "EndQuiz" /\ held) =>
                  /\ ret'.err = ""
                  /\ Quizzes'["A"][quizID].Status = QuizStatusEnded
                  /\ LocallyBroadcast("A", quizID, "quiz_ended")]_vars

\* Instance A, started without Redis, accepted an answer for a quiz the store
\* does not hold and queued its score_update for a local client, having
\* published nothing, while the subscription of instance B holds a message.
C17_Witness ==
  /\ ~rclient["A"]
  /\ ret.op = "SubmitAnswer" /\ ret.inst = "A" /\ ret.err = ""
  /\ ret.quiz \notin DOMAIN redisQuiz
  /\ nPublished = 0
  /\ inbox["B"] # << >>
  /\ \E c \in Clients["A"] :
       client[c].QuizID = ret.quiz /\ CountType(client[c].Send, "score_update") = 1

\* The quiz id is in neither the registry of the instance nor the store.
Removed(reg, store, active, i, quizID) ==
  /\ quizID \notin DOMAIN reg[i]
  /\ quizID \notin DOMAIN store
  /\ quizID \notin active

\* C18 as stated: DeleteQuiz succeeds and leaves the quiz in neither the
\* registry nor the store, and a DeleteQuiz that repeats the previous call
\* changes neither.
C18_DeleteRemoves ==
  [][ret'.op = "DeleteQuiz" =>
       /\ ret'.err = ""
       /\ Removed(Quizzes', redisQuiz', redisActive', ret'.inst, ret'.quiz)
       /\ (ret.op = "DeleteQuiz" /\ ret.inst = ret'.inst /\ ret.quiz = ret'.quiz) =>
            /\ Quizzes' = Quizzes
            /\ redisQuiz' = redisQuiz
            /\ redisActive' = redisActive]_vars

\* C18, amended: DeleteQuiz always succeeds and removes the quiz from the
\* registry of the instance that serves it; it removes the quiz from the store
\* when the store executes the commands, and leaves the store as it is when it
\* does not; nothing else changes, and on an id that is in neither it changes
\* nothing.
C18_DeleteRemovesWhenStoreWorks ==
  [][ret'.op = "DeleteQuiz" =>
       LET i == ret'.inst
           quizID == ret'.quiz
       IN /\ ret'.err = ""
          /\ Quizzes' = [Quizzes EXCEPT ![i] = Delete(@, quizID)]
          /\ quizID \notin DOMAIN Quizzes'[i]
          /\ RedisWorks(i) =>
               /\ quizID \notin DOMAIN redisQuiz' /\ quizID \notin redisActive'
               /\ \A q \in DOMAIN redisQuiz \ {quizID} :
                    q \in DOMAIN redisQuiz' /\ redisQuiz'[q] = redisQuiz[q]
               /\ redisActive \ {quizID} = redisActive'
          /\ ~RedisWorks(i) => redisQuiz' = redisQuiz /\ redisActive' = redisActive
          /\ Removed(Quizzes, redisQuiz, redisActive, i, quizID) =>
               Quizzes' = Quizzes /\ redisQuiz' = redisQuiz /\ redisActive' = redisActive]_vars

\* A quiz that was created, stored and joined has been deleted through
\* instance A with Redis working: it is in neither A's registry nor the store.
C18_Witness ==
  /\ ret.op = "DeleteQuiz" /\ ret.inst = "A" /\ ret.quiz = QuizIdOf(1)
  /\ ~redisDown
  /\ redisUser # << >>
  /\ Removed(Quizzes, redisQuiz, redisActive, "A", QuizIdOf(1))

\* C19: the entries a GetLeaderboard call returns, also one that ran while
\* answers were submitted, show the scores of one state the quiz passed
\* through.
C19_ConsistentSnapshot ==
  (ret.op = "GetLeaderboard" /\ ret.err = "") =>
    \E table \in history :
      /\ DOMAIN table = {ret.value[k].UserID : k \in 1..Len(ret.value)}
      /\ \A k \in 1..Len(ret.value) : ret.value[k].Score = table[ret.value[k].UserID]

\* C20: GetQuiz returns the quiz of the registry when the id is there and
\* leaves the registry alone; on a miss it returns the quiz the store holds
\* and inserts it; it fails with NotFound and an unchanged registry when the
\* id is in neither (and also when the store cannot be read).
C20_GetQuizCases ==
  [][ret'.op = "GetQuiz" =>
       LET i == ret'.inst
           quizID == ret'.quiz
           cached == quizID \in DOMAIN Quizzes[i]
           stored == quizID \in DOMAIN redisQuiz
       IN /\ redisQuiz' = redisQuiz /\ redisActive' = redisActive
          /\ cached =>
               /\ ret'.err = ""
               /\ ret'.value = Quizzes[i][quizID]
               /\ Quizzes' = Quizzes
          /\ (~cached /\ stored /\ RedisWorks(i)) =>
               /\ ret'.err = ""
               /\ ret'.value = redisQuiz[quizID]
               /\ Quizzes' = [Quizzes EXCEPT ![i] = Put(@, quizID, redisQuiz[quizID])]
          /\ (~cached /\ (~stored \/ ~RedisWorks(i))) =>
               /\ ret'.err = "NotFound"
               /\ Quizzes' = Quizzes]_vars

\* Instance B, which never created a quiz, answered GetQuiz with the quiz it
\* loaded from the store, participant included, and holds it in its registry.
C20_Witness ==
  /\ ret.op = "GetQuiz" /\ ret.inst = "B" /\ ret.err = ""
  /\ ret.quiz \in DOMAIN Quizzes["B"]
  /\ ret.quiz \in DOMAIN redisQuiz
  /\ ret.value = redisQuiz[ret.quiz]
  /\ DOMAIN ret.value.Participants # {}

\* GetQuiz of the instance finds the quiz: cached, or stored and readable.
Present(i, quizID) ==
  Held(i, quizID) \/ (RedisWorks(i) /\ quizID \in DOMAIN redisQuiz)

\* The quiz GetQuiz of the instance hands to the handler.
Found(i, quizID) ==
  IF Held(i, quizID) THEN Quizzes[i][quizID] ELSE redisQuiz[quizID]

\* No client queue of the instance gains an event of one of the types, and
\* nothing is published.
NothingBroadcast(types) ==
  /\ nPublished' = nPublished
  /\ inbox' = inbox
  /\ \A c \in ClientIds, type \in types :
       CountType(client'[c].Send, type) = CountType(client[c].Send, type)

\* C21: JoinQuiz on an absent quiz fails with NotFound, adds no participant
\* and broadcasts nothing; on an existing quiz it adds exactly one participant
\* under an id no participant has, with score 0 and no answers, and leaves
\* every other participant as it was.
C21_JoinQuizOutcome ==
  [][(ret'.op \in {"JoinQuiz", "handleJoinQuiz"} /\ ret'.inst \in Instances) =>
       LET i == ret'.inst
           quizID == ret'.quiz
       IN IF ~Present(i, quizID)
          THEN /\ ret'.err = "NotFound"
               /\ Quizzes' = Quizzes
               /\ redisQuiz' = redisQuiz /\ redisUser' = redisUser
               /\ uuidUser' = uuidUser
               /\ NothingBroadcast({"user_joined", "leaderboard_update"})
          ELSE LET before == Found(i, quizID).Participants
                   after == Quizzes'[i][quizID].Participants
               IN /\ ret'.err = ""
                  /\ ret'.user \notin DOMAIN before
                  /\ DOMAIN after = DOMAIN before \cup {ret'.user}
                  /\ after[ret'.user] = [ID |-> ret'.user, Score |-> 0, Answers |-> << >>]
                  /\ \A u \in DOMAIN before : after[u] = before[u]]_vars

\* A second user has joined a quiz: it holds the earlier participant and the
\* new one.
C21_Witness ==
  /\ ret.op \in {"JoinQuiz", "handleJoinQuiz"} /\ ret.err = ""
  /\ ret.inst \in Instances
  /\ Held(ret.inst, ret.quiz)
  /\ Cardinality(DOMAIN Quizzes[ret.inst][ret.quiz].Participants) = 2
  /\ Quizzes[ret.inst][ret.quiz].Participants[ret.user].Score = 0

\* Some question of the fixed question set carries the id.
KnownQuestion(questionID) ==
  \E k \in 1..Len(getSampleQuestions) : getSampleQuestions[k].ID = questionID

\* C22: SubmitAnswer fails with NotFound for an unknown quiz, user or
\* question, and a failing SubmitAnswer (NotFound or Conflict) appends no
\* answer, changes no score and broadcasts no score_update or
\* leaderboard_update.
C22_SubmitFailureChangesNothing ==
  [][(ret'.op = "SubmitAnswer" /\ ret'.inst \in Instances) =>
       LET i == ret'.inst
           quizID == ret'.quiz
           known == /\ Present(i, quizID)
                    /\ ret'.user \in DOMAIN Found(i, quizID).Participants
       IN /\ ~Present(i, quizID) => ret'.err = "NotFound"
          /\ (Present(i, quizID) /\ ~known) => ret'.err = "NotFound"
          /\ (known /\ ~HasAnswered(Found(i, quizID).Participants[ret'.user], ret'.value)
                    /\ ~KnownQuestion(ret'.value)) => ret'.err = "NotFound"
          /\ ret'.err \in {"", "NotFound", "Conflict"}
          /\ ret'.err # "" =>
               /\ \A q \in DOMAIN Quizzes[i] : Quizzes'[i][q] = Quizzes[i][q]
               /\ Present(i, quizID) => Quizzes'[i][quizID] = Found(i, quizID)
               /\ redisQuiz' = redisQuiz /\ redisUser' = redisUser
               /\ NothingBroadcast({"score_update", "leaderboard_update"})]_vars

\* A participant of a quiz with a registered client submitted an answer to a
\* question the quiz does not have: NotFound.
C22_Witness ==
  /\ ret.op = "SubmitAnswer" /\ ret.err = "NotFound" /\ ret.value = UnknownQuestion
  /\ Held(ret.inst, ret.quiz)
  /\ ret.user \in DOMAIN Quizzes[ret.inst][ret.quiz].Participants
  /\ \E c \in Clients[ret.inst] : client[c].QuizID = ret.quiz

\* C23: an accepted answer is recorded as correct exactly when the choice is
\* the question's correct index, with the question's points when correct and
\* 0 otherwise, whatever the choice (inside or outside the options), and the
\* user's score grows by the recorded points.
C23_AnswerScored ==
  [][(ret'.op = "SubmitAnswer" /\ ret'.err = "") =>
       LET i == ret'.inst
           before == Found(i, ret'.quiz).Participants[ret'.user]
           after == Quizzes'[i][ret'.quiz].Participants[ret'.user]
           record == after.Answers[Len(after.Answers)]
           question == CHOOSE q \in {getSampleQuestions[k] : k \in 1..Len(getSampleQuestions)} :
                         q.ID = ret'.value
       IN /\ Len(after.Answers) = Len(before.Answers) + 1
          /\ \A k \in 1..Len(before.Answers) : after.Answers[k] = before.Answers[k]
          /\ record.QuestionID = ret'.value
          /\ record.Correct = (record.Answer = question.Correct)
          /\ record.Points = (IF record.Correct THEN question.Points ELSE 0)
          /\ after.Score = before.Score + record.Points]_vars

\* An option index beyond the options of the question was accepted and
\* recorded as incorrect with no points.
C23_Witness ==
  /\ ret.op = "SubmitAnswer" /\ ret.err = ""
  /\ LET answers == Quizzes[ret.inst][ret.quiz].Participants[ret.user].Answers
     IN /\ answers # << >>
        /\ answers[Len(answers)].Answer = SubmitChoiceAbove
        /\ ~answers[Len(answers)].Correct
        /\ answers[Len(answers)].Points = 0

\* C24: SubmitAnswer for a question the participant has not answered
\* succeeds and records the answer whether the quiz is waiting, active or
\* ended.
C24_AcceptedInEveryStatus ==
  [][(/\ ret'.op = "SubmitAnswer" /\ ret'.inst \in Instances
      /\ Present(ret'.inst, ret'.quiz)
      /\ ret'.user \in DOMAIN Found(ret'.inst, ret'.quiz).Participants
      /\ KnownQuestion(ret'.value)
      /\ ~HasAnswered(Found(ret'.inst, ret'.quiz).Participants[ret'.user], ret'.value)) =>
       /\ ret'.err = ""
       /\ HasAnswered(Quizzes'[ret'.inst][ret'.quiz].Participants[ret'.user], ret'.value)
       /\ Quizzes'[ret'.inst][ret'.quiz].Status = Found(ret'.inst, ret'.quiz).Status]_vars

\* A correct answer was accepted and scored on a quiz that has ended.
C24_Witness ==
  /\ ret.op = "SubmitAnswer" /\ ret.err = ""
  /\ Quizzes[ret.inst][ret.quiz].Status = QuizStatusEnded
  /\ Quizzes[ret.inst][ret.quiz].Participants[ret.user].Score > 0

\* Two tasks are at accesses to the same location, one of them a write.
Racing(t1, t2) ==
  /\ t1 # t2
  /\ Running(t1) /\ Running(t2)
  /\ Instr(t1).kind = "access" /\ Instr(t2).kind = "access"
  /\ Instr(t1).on = Instr(t2).on
  /\ "w" \in {Instr(t1).mode, Instr(t2).mode}

\* C25: no two tasks access the registry map, a quiz's status or a
\* participant's score at once with one of them writing.
C25_NoUnsynchronisedAccess ==
  \A t1, t2 \in TaskIds :
    Racing(t1, t2) => Instr(t1).on.name \notin {"qs.Quizzes", "q.Status", "u.Score"}

\* All running tasks wait for a lock and none can take it.
LockDeadlock ==
  /\ \E t \in TaskIds : Running(t)
  /\ \A t \in TaskIds :
       Running(t) => /\ Instr(t).kind = "acquire"
                     /\ ~LockFree(t, Instr(t).on, Instr(t).mode)

\* C26: a task that takes or holds the client-registry lock qs.Mu holds no
\* quiz lock and no user lock, and the tasks never all wait for locks.
C26_RegistryLockNotNested ==
  /\ \A t \in TaskIds :
       (Running(t)
        /\ (\/ Instr(t).kind = "acquire" /\ Instr(t).on.name = "qs.Mu"
            \/ \E h \in LocksHeld(t) : h.on.name = "qs.Mu")) =>
         \A h \in LocksHeld(t) : h.on.name \notin {"q.mu", "u.mu"}
  /\ ~LockDeadlock

\* One task waits for qs.Mu to remove a client while another holds it for a
\* fan-out.
C26_Witness ==
  \E t1, t2 \in TaskIds :
    /\ Running(t1) /\ Running(t2)
    /\ Instr(t1).kind = "acquire" /\ Instr(t1).on.name = "qs.Mu" /\ Instr(t1).mode = "w"
    /\ task[t1].pc = "JoinQuiz"
    /\ ~LockFree(t1, Instr(t1).on, "w")
    /\ \E h \in LocksHeld(t2) : h.on.name = "qs.Mu" /\ h.mode = "r"

\* C27: a broadcast that has started returns, whatever the queues of the
\* clients hold and whether or not any client reads.
C27_BroadcastTerminates ==
  \A t \in TaskIds : (task[t].pc = "fanout") ~> (task[t].pc = "idle")

\* A fan-out met a client of the quiz whose queue was full and went on to the
\* removal pass; the queue is still full.
C27_Witness ==
  \E t \in TaskIds :
    /\ task[t].pc = "remove"
    /\ \E c \in task[t].marked : Len(client[c].Send) = SendCap

\* The types of the events the handlers broadcast.
EventTypes ==
  {"user_joined", "leaderboard_update", "score_update", "quiz_started", "quiz_ended"}

Disconnected(c) == client[c].Hub # "" /\ ~client[c].reading

\* The client is out of the registry of its instance and its queue is closed.
Released(c) ==
  /\ client[c].Hub # ""
  /\ c \notin Clients[client[c].Hub]
  /\ client[c].closes = 1

\* C29: once the read on a client's connection has failed, the client is
\* eventually out of the registry with its queue closed, for as long as the
\* process of its instance runs; from then on it stays out, its queue is
\* not closed again and nothing is enqueued on it.
C29_DisconnectReleases ==
  /\ \A c \in ClientIds :
       Disconnected(c) ~> (Released(c) \/ client[c].Hub \in crashed)
  /\ [][\A c \in ClientIds :
          (Disconnected(c) /\ Released(c)) =>
             /\ Released(c)'
             /\ Len(client'[c].Send) <= Len(client[c].Send)]_vars

\* The deferred UnregisterClient of a disconnected client bound to a quiz
\* removed it and closed its queue, and a broadcast to its quiz is under way.
C29_Witness ==
  /\ ret.op = "readPump"
  /\ \E c \in ClientIds :
       /\ ret.value = c
       /\ Disconnected(c) /\ Released(c)
       /\ client[c].QuizID # ""
       /\ \E t \in TaskIds : task[t].pc = "fanout" /\ task[t].quiz = client[c].QuizID

\* The variables that hold quizzes, users and what was published about them.
QuizState ==
  << Quizzes, redisQuiz, redisUser, redisActive, inbox, nPublished, uuidQuiz, uuidUser, clock >>

\* The websocket messages that need a joined client.
BoundOnlyOps == {"handleSubmitAnswer", "handleStartQuiz", "handleEndQuiz"}

\* C30: a client is registered with an empty quiz id and user id; the two
\* change only in a successful join_quiz of that client, which sets them to
\* the quiz joined and the user created; a join_quiz that fails creates no
\* user and leaves the binding as it was; submit_answer, start_quiz and
\* end_quiz of a client with no binding are answered with the error "Must
\* join a quiz first" and leave every quiz, user and publication unchanged.
C30_BoundOnlyByJoin ==
  [][/\ ret'.op = "HandleWebSocket" =>
          client'[ret'.value].QuizID = "" /\ client'[ret'.value].UserID = ""
     /\ \A c \in ClientIds :
          (client[c].Hub # "" /\ << client'[c].QuizID, client'[c].UserID >>
                                   # << client[c].QuizID, client[c].UserID >>) =>
             /\ ret'.op = "handleJoinQuiz" /\ ret'.value = c /\ ret'.err = ""
             /\ client'[c].QuizID = ret'.quiz /\ ret'.quiz \in DOMAIN Quizzes'[ret'.inst]
             /\ client'[c].UserID = ret'.user
             /\ ret'.user \in DOMAIN Quizzes'[ret'.inst][ret'.quiz].Participants
     /\ (ret'.op = "handleJoinQuiz" /\ ret'.err # "") =>
          /\ client'[ret'.value].QuizID = client[ret'.value].QuizID
          /\ client'[ret'.value].UserID = client[ret'.value].UserID
          /\ UNCHANGED << redisQuiz, redisUser, redisActive, nPublished, uuidUser >>
     /\ (ret'.op \in BoundOnlyOps /\ client[ret'.value].QuizID = "") =>
          /\ ret'.err = "Must join a quiz first"
          /\ UNCHANGED QuizState
          /\ (ret'.value \in Clients[ret'.inst] /\ HasRoom(client[ret'.value])) =>
               client'[ret'.value].Send =
                 Append(client[ret'.value].Send,
                        [Type |-> "error", Payload |-> "Must join a quiz first"])]_vars

\* A client with no binding sent a message that needs one after a join_quiz
\* of it had failed, while the quiz it names exists in waiting status, and
\* was answered with the error.
C30_Witness ==
  /\ ret.op \in BoundOnlyOps
  /\ ret.err = "Must join a quiz first"
  /\ client[ret.value].QuizID = "" /\ client[ret.value].UserID = ""
  /\ Len(client[ret.value].Send) = 2
  /\ client[ret.value].Send[1].Type = "error"
  /\ client[ret.value].Send[1].Payload # "Must join a quiz first"
  /\ \E quizID \in DOMAIN Quizzes["A"] : Quizzes["A"][quizID].Status = QuizStatusWaiting

\* The reply to a message of unknown type.
UnknownTypeError == [Type |-> "error", Payload |-> "Unknown message type"]

\* C31: a message of unknown type puts an error reply on the client's queue,
\* changes no quiz state and leaves the client registered with its queue
\* open.
C31_UnknownTypeReply ==
  [][ret'.op = "handleMessage" =>
       /\ UNCHANGED QuizState
       /\ client'[ret'.value].Send = Append(client[ret'.value].Send, UnknownTypeError)
       /\ ret'.value \in Clients'[ret'.inst]
       /\ client'[ret'.value].closes = 0]_vars

\* C31, amended: a message of unknown type changes no quiz state; sent by a
\* registered client whose queue has room it puts an error reply on the
\* queue and leaves the client registered with its queue open; sent by a
\* registered client whose queue is full it gets no reply, the client is
\* removed from the registry and its queue is closed.
C31_UnknownTypeReplyWithRoom ==
  [][(ret'.op = "handleMessage" /\ ret'.value \in Clients[ret'.inst]) =>
       /\ UNCHANGED QuizState
       /\ HasRoom(client[ret'.value]) =>
            /\ client'[ret'.value].Send = Append(client[ret'.value].Send, UnknownTypeError)
            /\ ret'.value \in Clients'[ret'.inst]
            /\ client'[ret'.value].closes = 0
       /\ ~HasRoom(client[ret'.value]) =>
            /\ client'[ret'.value].Send = client[ret'.value].Send
            /\ ret'.value \notin Clients'[ret'.inst]
            /\ client'[ret'.value].closes = 1]_vars

\* A message of unknown type from a client whose queue was full: the client
\* is out of the registry, its queue closed and without the reply, while a
\* quiz exists.
C31_Witness ==
  /\ ret.op = "handleMessage"
  /\ ret.value \notin Clients[ret.inst]
  /\ client[ret.value].closes = 1
  /\ Len(client[ret.value].Send) = SendCap
  /\ ret.inst \notin crashed
  /\ Quizzes[ret.inst] # << >>

\* C32: the list of active quizzes is returned without an error and holds
\* every quiz in the registry of the instance that serves the request (the
\* quizzes created or loaded there and not deleted there), also on an
\* instance that runs without the shared store.
C32_ListsEveryQuiz ==
  [][ret'.op = "GetActiveQuizzes" =>
       /\ ret'.err = ""
       /\ \A quizID \in DOMAIN Quizzes[ret'.inst] :
            \E k \in DOMAIN ret'.value : ret'.value[k].ID = quizID]_vars

\* C33: nothing is sent on a client's queue after the queue was closed.  A
\* send on a closed channel panics and ends the process of the instance, so
\* the claim is that no instance ever ends that way.
C33_NoSendAfterClose ==
  crashed = {}

\* s is an initial segment of t.
IsPrefix(s, t) == Len(s) <= Len(t) /\ \A k \in 1..Len(s) : t[k] = s[k]

\* C34: no step removes a participant or an answer from a persisted quiz:
\* the quiz stays in the store, every participant it holds stays in it, and
\* the answers of each participant are only added to.
C34_NothingLostFromStore ==
  [][\A quizID \in DOMAIN redisQuiz :
       /\ quizID \in DOMAIN redisQuiz'
       /\ \A userID \in DOMAIN redisQuiz[quizID].Participants :
            /\ userID \in DOMAIN redisQuiz'[quizID].Participants
            /\ IsPrefix(redisQuiz[quizID].Participants[userID].Answers,
                        redisQuiz'[quizID].Participants[userID].Answers)]_vars

\* DeleteQuiz has completed for the quiz id: the id was issued and is in
\* neither the store nor the active set (Redis executes every command in the
\* late-write scenario, so CreateQuiz stored it and only DeleteQuiz removes it).
Deleted(quizID) ==
  /\ \E n \in 1..uuidQuiz : quizID = QuizIdOf(n)
  /\ quizID \notin DOMAIN redisQuiz
  /\ quizID \notin redisActive

\* C35: no step writes a deleted quiz back to the store or to the set of
\* active quizzes.
C35_DeletedStaysDeleted ==
  [][\A quizID \in QuizIdInputs :
       Deleted(quizID) => quizID \notin DOMAIN redisQuiz' /\ quizID \notin redisActive']_vars

====
